---------------------------- MODULE Spec2Model ----------------------------
(***************************************************************************)
(* Model of the breakout scoring engine of the MLB breakout predictor      *)
(* (computeBreakoutScore and the tables it reads).                         *)
(*                                                                         *)
(* Units.  Rates, wOBA values and year-over-year improvements are held in  *)
(* thousandths (0.350 is 350, -0.03 is -30), bat speed in mph, weights and *)
(* multipliers in hundredths (1.15 is 115).  The arithmetic is exact: a    *)
(* quotient is kept as a fraction, a product of multipliers as the         *)
(* sequence of its factors, and Math.round is evaluated on the exact       *)
(* rational value.  The rounding of IEEE doubles is modelled where a       *)
(* statement is about it: F64Product is the double that a sequence of      *)
(* factors multiplies to.                                                  *)
(*                                                                         *)
(* null and undefined are one value, NULL: the code tests both with        *)
(* "== null" or "!= null".  An object property that was never set is       *)
(* absent from the DOMAIN of the function that models the object.          *)
(***************************************************************************)
EXTENDS Integers, Sequences, FiniteSets, TLC

VARIABLES
    weights,   \* the module-level WEIGHTS object
    year,      \* the prediction year passed to computeBreakoutScore
    records,   \* the player records the loader ingested (demo or live data)
    heap,      \* the player objects of the input array, by input position
    alias,     \* alias[k]: the record that heap[k] is, 0 for an object of
               \* its own
    ranked,    \* the array returned by the last call: references into heap
    calls,     \* number of computeBreakoutScore calls made on this cohort
    shown,     \* the rows of the rankings table as last rendered
    selectedYear,  \* App state: the year the toggle shows as selected
    loading,       \* App state: the loading flag
    dataSource,    \* App state: "live", "demo" or null
    error,         \* App state: the error banner's message or null
    pending        \* the loadLive invocations in flight: the year each
                   \* closed over and the response its fetch settled with

vars ==
    <<weights, year, records, heap, alias, ranked, calls, shown,
      selectedYear, loading, dataSource, error, pending>>

\* What the App shows and does apart from the cohort
app == <<selectedYear, loading, dataSource, error, pending>>

NULL == -1000000

\* null where the other values are strings
NullString == "null"

\* ------------------------------------------------------------ bounds
MaxPlayers == 3
MaxCalls == 2

\* ------------------------------------------------ exact arithmetic
RECURSIVE Gcd(_, _)
Gcd(a, b) == IF b = 0 THEN a ELSE Gcd(b, a % b)

\* A non-negative quotient of small integers, in lowest terms.
Frac(num, den) ==
    LET g == Gcd(num, den) IN [n |-> num \div g, d |-> den \div g]

FracAdd(a, b) == Frac(a.n * b.d + b.n * a.d, a.d * b.d)
FracMul(a, b) == Frac(a.n * b.n, a.d * b.d)

\* A natural number of any size: little-endian limbs in base Base.
Base == 10000

\* The largest divisor one long-division step takes without overflow
MaxDivisor == 200000

RECURSIVE BigOfNat(_)
BigOfNat(k) == IF k < Base THEN <<k>> ELSE <<k % Base>> \o BigOfNat(k \div Base)

RECURSIVE BigMulC(_, _, _)
BigMulC(b, k, carry) ==
    IF b = <<>>
    THEN IF carry = 0 THEN <<>> ELSE BigOfNat(carry)
    ELSE LET t == Head(b) * k + carry
         IN  <<t % Base>> \o BigMulC(Tail(b), k, t \div Base)

\* b * k for a small k
BigMul(b, k) == BigMulC(b, k, 0)

RECURSIVE BigDivFrom(_, _, _, _)
BigDivFrom(b, k, i, rem) ==
    \* the limbs 1..i of floor(b / k), rem being what the limbs above left
    IF i = 0 THEN <<>>
    ELSE LET cur == rem * Base + b[i]
         IN  Append(BigDivFrom(b, k, i - 1, cur % k), cur \div k)

\* floor(b / k) for 0 < k <= MaxDivisor
BigDiv(b, k) == BigDivFrom(b, k, Len(b), 0)

RECURSIVE BigDivAll(_, _)
BigDivAll(b, ks) ==
    IF ks = <<>> THEN b ELSE BigDivAll(BigDiv(b, Head(ks)), Tail(ks))

RECURSIVE BigToNat(_)
BigToNat(b) == IF b = <<>> THEN 0 ELSE Head(b) + Base * BigToNat(Tail(b))

\* A non-negative rational of any size: the numerator n over the product
\* of the divisors of d, each at most MaxDivisor.
QFrac(f) ==
    [n |-> BigOfNat(f.n), d |-> IF f.d = 1 THEN <<>> ELSE <<f.d>>]

\* q * f for a fraction f
QMul(q, f) ==
    [n |-> BigMul(q.n, f.n),
     d |-> IF f.d = 1 THEN q.d
           ELSE IF q.d # <<>> /\ q.d[Len(q.d)] * f.d <= MaxDivisor
                THEN [q.d EXCEPT ![Len(q.d)] = @ * f.d]
                ELSE Append(q.d, f.d)]

RECURSIVE QMulAll(_, _)
QMulAll(q, factors) ==
    \* q times every factor of a sequence of hundredths
    IF factors = <<>> THEN q
    ELSE QMulAll(QMul(q, Frac(Head(factors), 100)), Tail(factors))

\* Math.round of a non-negative value: floor(q + 1/2), which is
\* floor((floor(2 * q) + 1) / 2)
MathRound(q) == (BigToNat(BigDivAll(BigMul(q.n, 2), q.d)) + 1) \div 2

\* ------------------------------------------- IEEE 754 binary64 products
\* A positive normal double is [m |-> digits, e |-> exponent]: the 53-bit
\* significand as five digits in base 2^13, least significant first (the
\* fifth digit is the leading bit), and the value m * 2^(e - 52).
Digit == 8192

\* The doubles of the decimal literals of the multipliers, by hundredths
F64(h) ==
    CASE h = 100 -> [m |-> <<0, 0, 0, 0, 1>>, e |-> 0]
      [] h = 110 -> [m |-> <<6554, 3276, 1638, 819, 1>>, e |-> 0]
      [] h = 108 -> [m |-> <<328, 983, 2949, 655, 1>>, e |-> 0]
      [] h = 115 -> [m |-> <<1638, 4915, 6553, 1228, 1>>, e |-> 0]
      [] h = 112 -> [m |-> <<4588, 5570, 327, 983, 1>>, e |-> 0]
      [] h = 75 -> [m |-> <<0, 0, 0, 4096, 1>>, e |-> -1]
      [] h = 120 -> [m |-> <<4915, 6553, 3276, 1638, 1>>, e |-> 0]
      [] h = 140 -> [m |-> <<1638, 4915, 6553, 3276, 1>>, e |-> 0]
      [] h = 130 -> [m |-> <<3277, 1638, 4915, 2457, 1>>, e |-> 0]

\* The digit sums of a product, before the carries: column k holds the sum
\* of a[i] * b[j] over i + j = k + 1
Columns(a, b) ==
    [k \in 1..10 |->
       LET term(i) == IF i <= 5 /\ k + 1 - i >= 1 /\ k + 1 - i <= 5
                      THEN a[i] * b[k + 1 - i] ELSE 0
       IN  term(1) + term(2) + term(3) + term(4) + term(5)]

RECURSIVE Carried(_, _)
Carried(cols, carry) ==
    IF cols = <<>> THEN <<>>
    ELSE LET t == Head(cols) + carry
         IN  <<t % Digit>> \o Carried(Tail(cols), t \div Digit)

RECURSIVE Halved(_)
Halved(digits) ==
    \* floor(digits / 2)
    IF Len(digits) = 1 THEN <<Head(digits) \div 2>>
    ELSE <<Head(digits) \div 2 + (digits[2] % 2) * (Digit \div 2)>>
         \o Halved(Tail(digits))

RECURSIVE Incremented(_)
Incremented(digits) ==
    IF digits = <<>> THEN <<>>
    ELSE IF Head(digits) + 1 < Digit THEN <<Head(digits) + 1>> \o Tail(digits)
    ELSE <<0>> \o Incremented(Tail(digits))

\* The double above x
F64Succ(x) ==
    LET up == Incremented(x.m)
    IN  IF up[5] = 2 THEN [m |-> <<0, 0, 0, 0, 1>>, e |-> x.e + 1]
        ELSE [m |-> up, e |-> x.e]

\* x * y of two doubles: the exact 106-bit product, rounded to 53 bits,
\* to nearest and to even on a tie
F64Mul(x, y) ==
    LET prod   == Carried(Columns(x.m, y.m), 0)
        lo     == SubSeq(prod, 1, 4)
        hi     == <<prod[5], prod[6], prod[7], prod[8],
                    prod[9] + Digit * prod[10]>>
        wide   == hi[5] >= 2
        kept   == IF wide THEN Halved(hi) ELSE hi
        odd    == kept[1] % 2 = 1
        loZero == lo = <<0, 0, 0, 0>>
        above  == IF wide THEN hi[1] % 2 = 1 /\ ~loZero
                  ELSE lo[4] > Digit \div 2
                       \/ (lo[4] = Digit \div 2
                           /\ SubSeq(lo, 1, 3) # <<0, 0, 0>>)
        tie    == IF wide THEN hi[1] % 2 = 1 /\ loZero
                  ELSE lo = <<0, 0, 0, Digit \div 2>>
        exact  == [m |-> kept, e |-> x.e + y.e + (IF wide THEN 1 ELSE 0)]
    IN  IF above \/ (tie /\ odd)
        THEN F64Succ(exact)
        ELSE exact

RECURSIVE F64MulAll(_, _)
F64MulAll(x, factors) ==
    IF factors = <<>> THEN x
    ELSE F64MulAll(F64Mul(x, F64(Head(factors))), Tail(factors))

\* let m = 1.0; m *= f for each factor f of a sequence of hundredths, in
\* the order of the sequence
F64Product(factors) == F64MulAll(F64(100), factors)

\* ------------------------------------------------ JavaScript values
Falsy(v) == v = NULL \/ v = 0

\* a || b
OrElse(a, b) == IF Falsy(a) THEN b ELSE a

\* Strings the code inspects character by character are sequences of
\* one-character strings; a missing position and '' are both << >>,
\* which is what (p.position || '') makes of them.
Upper(c) ==
    CASE c = "s" -> "S" [] c = "p" -> "P" [] c = "r" -> "R"
      [] c = "d" -> "D" [] c = "h" -> "H" [] c = "f" -> "F"
      [] OTHER -> c

toUpperCase(str) == [i \in 1..Len(str) |-> Upper(str[i])]

includes(str, sub) ==
    \E i \in 1..(Len(str) - Len(sub) + 1) :
        SubSeq(str, i, i + Len(sub) - 1) = sub

\* obj[key] = value on an object modelled as a function
SetProp(obj, key, value) ==
    [k \in (DOMAIN obj) \cup {key} |-> IF k = key THEN value ELSE obj[k]]

\* ---------------------------------------------------- configuration
\* Object.keys(WEIGHTS), in property order
FeatureKeys ==
    <<"hardHitRate", "barrelRate", "batSpeed",
      "barrelImprovement", "hardHitImprovement", "chaseImprovement",
      "kRateInverse", "chaseRateInverse",
      "xwobaSurplus", "xwobaLevel">>

\* The weights with chaseImprovement at 0.06
WeightsChaseSix ==
    [hardHitRate |-> 14, barrelRate |-> 14, batSpeed |-> 9,
     barrelImprovement |-> 15, hardHitImprovement |-> 10,
     chaseImprovement |-> 6,
     kRateInverse |-> 10, chaseRateInverse |-> 10,
     xwobaSurplus |-> 7, xwobaLevel |-> 3]

WEIGHTS ==
    [hardHitRate |-> 14, barrelRate |-> 14, batSpeed |-> 9,
     barrelImprovement |-> 15, hardHitImprovement |-> 10,
     chaseImprovement |-> 8,
     kRateInverse |-> 10, chaseRateInverse |-> 10,
     xwobaSurplus |-> 7, xwobaLevel |-> 3]

\* The age curve without its null test: null <= 23 holds in JavaScript
AgeMultiplierNoNullTest(age) ==
    IF age = NULL THEN 115
    ELSE IF age <= 23 THEN 115
    ELSE IF age <= 26 THEN 125
    ELSE IF age <= 28 THEN 100
    ELSE IF age <= 30 THEN 85
    ELSE 70

\* The age curve with its first window ending before 23
AgeMultiplierBelow23(age) ==
    IF age = NULL THEN 100
    ELSE IF age < 23 THEN 115
    ELSE IF age <= 26 THEN 125
    ELSE IF age <= 28 THEN 100
    ELSE IF age <= 30 THEN 85
    ELSE 70

AGE_MULTIPLIERS_getMultiplier(age) ==
    IF age = NULL THEN 100
    ELSE IF age <= 23 THEN 115
    ELSE IF age <= 26 THEN 125
    ELSE IF age <= 28 THEN 100
    ELSE IF age <= 30 THEN 85
    ELSE 70

\* The sample-size steps with the lowest step starting above 150 PA
SampleMultiplierAbove150(pa) ==
    IF pa = NULL THEN 60
    ELSE IF pa >= 500 THEN 100
    ELSE IF pa >= 300 THEN 95
    ELSE IF pa >= 200 THEN 85
    ELSE IF pa > 150 THEN 75
    ELSE 60

\* The sample-size steps without the 150-199 PA step
SampleMultiplierNoStep150(pa) ==
    IF pa = NULL THEN 60
    ELSE IF pa >= 500 THEN 100
    ELSE IF pa >= 300 THEN 95
    ELSE IF pa >= 200 THEN 85
    ELSE 60

SAMPLE_SIZE_ADJUSTMENTS_getMultiplier(pa) ==
    IF pa = NULL THEN 60
    ELSE IF pa >= 500 THEN 100
    ELSE IF pa >= 300 THEN 95
    ELSE IF pa >= 200 THEN 85
    ELSE IF pa >= 150 THEN 75
    ELSE 60

\* String(y).slice(-2) for a four-digit year
\* The confidence tier with 400 PA itself below HIGH
ConfidenceTierAbove400(pa) ==
    IF pa = NULL THEN [label |-> "SPEC"]
    ELSE IF pa > 400 THEN [label |-> "HIGH"]
    ELSE IF pa >= 200 THEN [label |-> "MED"]
    ELSE [label |-> "LOW"]

\* SAMPLE_SIZE_ADJUSTMENTS.getTier: of the object returned, the label
SAMPLE_SIZE_ADJUSTMENTS_getTier(pa) ==
    IF pa = NULL THEN [label |-> "SPEC"]
    ELSE IF pa >= 400 THEN [label |-> "HIGH"]
    ELSE IF pa >= 200 THEN [label |-> "MED"]
    ELSE [label |-> "LOW"]

\* The quality tier with every threshold exclusive
getTierAbove(score) ==
    IF score > 80 THEN [label |-> "ELITE"]
    ELSE IF score > 68 THEN [label |-> "HIGH"]
    ELSE IF score > 55 THEN [label |-> "MED"]
    ELSE [label |-> "LOW"]

\* getTier: of the object returned, the label
getTier(score) ==
    IF score >= 80 THEN [label |-> "ELITE"]
    ELSE IF score >= 68 THEN [label |-> "HIGH"]
    ELSE IF score >= 55 THEN [label |-> "MED"]
    ELSE [label |-> "LOW"]

YearSuffix(y) ==
    LET yy == y % 100 IN IF yy < 10 THEN "0" \o ToString(yy) ELSE ToString(yy)

getFieldNames(y) ==
    [currentWoba  |-> "woba" \o YearSuffix(y - 1),
     prevWoba     |-> "woba" \o YearSuffix(y - 2),
     currentXwoba |-> "xwoba" \o YearSuffix(y - 1),
     prevXwoba    |-> "xwoba" \o YearSuffix(y - 2)]

\* p[key] for a key the object may lack
Prop(p, key) == IF key \in DOMAIN p THEN p[key] ELSE NULL

\* (first: scorePlayer taking hard-hit rate as an inverse, the way it
\* takes the strikeout and chase rates)
scorePlayerHardHitInverse(p, y) ==
    LET fields == getFieldNames(y)
    IN  [hardHitRate        |-> IF p.hardHitRate # NULL
                                THEN 1000 - p.hardHitRate ELSE NULL,
         barrelRate         |-> p.barrelRate,
         batSpeed           |-> p.batSpeed,
         barrelImprovement  |-> p.barrelImprovement,
         hardHitImprovement |-> p.hardHitImprovement,
         chaseImprovement   |-> p.chaseImprovement,
         kRateInverse       |-> IF p.kRate # NULL THEN 1000 - p.kRate ELSE NULL,
         chaseRateInverse   |-> IF p.chaseRate # NULL THEN 1000 - p.chaseRate
                                ELSE NULL,
         xwobaSurplus       |-> p.xwobaSurplus,
         xwobaLevel         |-> Prop(p, fields.currentXwoba)]

scorePlayer(p, y) ==
    LET fields == getFieldNames(y)
    IN  [hardHitRate        |-> p.hardHitRate,
         barrelRate         |-> p.barrelRate,
         batSpeed           |-> p.batSpeed,
         barrelImprovement  |-> p.barrelImprovement,
         hardHitImprovement |-> p.hardHitImprovement,
         chaseImprovement   |-> p.chaseImprovement,
         kRateInverse       |-> IF p.kRate # NULL THEN 1000 - p.kRate ELSE NULL,
         chaseRateInverse   |-> IF p.chaseRate # NULL THEN 1000 - p.chaseRate
                                ELSE NULL,
         xwobaSurplus       |-> p.xwobaSurplus,
         xwobaLevel         |-> Prop(p, fields.currentXwoba)]


\* (below, first: normalize with a missing value scored 0 instead of 50)
\* (first: normalize with the operands of || exchanged,
\* range = 1 || max - min)
normalizeRangeOne(players, field) ==
    LET vals == {players[i]._raw[field] : i \in DOMAIN players} \ {NULL}
    IN  IF vals = {} THEN players
        ELSE LET min   == CHOOSE m \in vals : \A v \in vals : m <= v
                 max   == CHOOSE m \in vals : \A v \in vals : m >= v
                 range == OrElse(1, max - min)
             IN  [i \in DOMAIN players |->
                    LET v == players[i]._raw[field]
                    IN  [players[i] EXCEPT !._scores =
                           SetProp(@, field,
                                   IF v = NULL THEN Frac(50, 1)
                                   ELSE Frac((v - min) * 100, range))]]

\* normalize(players, field): players is the filtered array (a sequence of
\* objects that carry _raw and _scores); the result is the array after
\* the forEach has written _scores[field].
normalizeNullAsZero(players, field) ==
    LET vals == {players[i]._raw[field] : i \in DOMAIN players} \ {NULL}
    IN  IF vals = {} THEN players
        ELSE LET min   == CHOOSE m \in vals : \A v \in vals : m <= v
                 max   == CHOOSE m \in vals : \A v \in vals : m >= v
                 range == OrElse(max - min, 1)
             IN  [i \in DOMAIN players |->
                    LET v == players[i]._raw[field]
                    IN  [players[i] EXCEPT !._scores =
                           SetProp(@, field,
                                   IF v = NULL THEN Frac(0, 1)
                                   ELSE Frac((v - min) * 100, range))]]

\* normalize without the subtraction of the minimum, (v / range) * 100
normalizeFromZero(players, field) ==
    LET vals == {players[i]._raw[field] : i \in DOMAIN players} \ {NULL}
    IN  IF vals = {} THEN players
        ELSE LET min   == CHOOSE m \in vals : \A v \in vals : m <= v
                 max   == CHOOSE m \in vals : \A v \in vals : m >= v
                 range == OrElse(max - min, 1)
             IN  [i \in DOMAIN players |->
                    LET v == players[i]._raw[field]
                    IN  [players[i] EXCEPT !._scores =
                           SetProp(@, field,
                                   IF v = NULL THEN Frac(50, 1)
                                   ELSE Frac(v * 100, range))]]

normalize(players, field) ==
    LET vals == {players[i]._raw[field] : i \in DOMAIN players} \ {NULL}
    IN  IF vals = {} THEN players
        ELSE LET min   == CHOOSE m \in vals : \A v \in vals : m <= v
                 max   == CHOOSE m \in vals : \A v \in vals : m >= v
                 range == OrElse(max - min, 1)
             IN  [i \in DOMAIN players |->
                    LET v == players[i]._raw[field]
                    IN  [players[i] EXCEPT !._scores =
                           SetProp(@, field,
                                   IF v = NULL THEN Frac(50, 1)
                                   ELSE Frac((v - min) * 100, range))]]

RECURSIVE normalizeAll(_, _)
normalizeAll(players, keys) ==
    \* Object.keys(WEIGHTS).forEach((field) => normalize(players, field, ..))
    IF keys = <<>> THEN players
    ELSE normalizeAll(normalize(players, Head(keys)), Tail(keys))

\* The pitcher test that knows starters only ('SP')
NotPitcherStartersOnly(p) ==
    LET pos == toUpperCase(p.position)
    IN  ~includes(pos, <<"S", "P">>)

\* The pitcher test on the position as written (no toUpperCase)
NotPitcherCaseSensitive(p) ==
    LET pos == p.position
    IN  /\ ~includes(pos, <<"S", "P">>)
        /\ ~includes(pos, <<"R", "P">>)
        /\ pos # <<"P">>

\* The pitcher filter's predicate (true: the record is kept)
NotPitcher(p) ==
    LET pos == toUpperCase(p.position)
    IN  /\ ~includes(pos, <<"S", "P">>)
        /\ ~includes(pos, <<"R", "P">>)
        /\ pos # <<"P">>

\* The star test with wOBA >= .350 in place of wOBA > .350
NotEstablishedStarFrom350(p) ==
    LET woba == OrElse(OrElse(p.currentWoba, p.woba25), p.woba24)
    IN  IF woba = NULL THEN TRUE
        ELSE IF woba >= 350
             THEN p.age # NULL /\ p.age < 24 /\ p.pa # NULL /\ p.pa < 400
             ELSE TRUE

\* The established-star filter's predicate (true: the record is kept)
NotEstablishedStar(p) ==
    LET woba == OrElse(OrElse(p.currentWoba, p.woba25), p.woba24)
    IN  IF woba = NULL THEN TRUE
        ELSE IF woba > 350
             THEN p.age # NULL /\ p.age < 24 /\ p.pa # NULL /\ p.pa < 400
             ELSE TRUE

\* The weighted sum with 0, not 50, for a feature normalize left unset
RECURSIVE TotalOverUnsetAsZero(_, _, _)
TotalOverUnsetAsZero(p, w, keys) ==
    IF keys = <<>> THEN Frac(0, 1)
    ELSE LET field == Head(keys)
             s == IF field \in DOMAIN p._scores THEN p._scores[field]
                  ELSE Frac(0, 1)
         IN  FracAdd(FracMul(s, Frac(w[field], 100)),
                     TotalOverUnsetAsZero(p, w, Tail(keys)))

\* The weighted sum of the forEach at the head of the scoring loop
RECURSIVE TotalOver(_, _, _)
TotalOver(p, w, keys) ==
    IF keys = <<>> THEN Frac(0, 1)
    ELSE LET field == Head(keys)
             s == IF field \in DOMAIN p._scores THEN p._scores[field]
                  ELSE Frac(50, 1)
         IN  FracAdd(FracMul(s, Frac(w[field], 100)),
                     TotalOver(p, w, Tail(keys)))

\* The sum started from the rawScore a previous call left on the object
TotalCarried(p, w) ==
    FracAdd(IF p._adjustments = << >> THEN Frac(0, 1)
            ELSE Frac(p._adjustments.rawScore, 1),
            TotalOver(p, w, FeatureKeys))

Total(p, w) == TotalOver(p, w, FeatureKeys)

\* eliteProfileMultiplier as the sequence of the factors multiplied into
\* it, in the order the code multiplies them (1.0 is the empty product).
Times(cond, factor) == IF cond THEN <<factor>> ELSE <<>>

\* The elite-young bonus of 1.10 at age 25 as well
EliteYoungTalentTo25(p) ==
    LET eliteHardHit == p.hardHitRate # NULL /\ p.hardHitRate > 550
        eliteBarrel  == p.barrelRate # NULL /\ p.barrelRate > 130
    IN  IF eliteHardHit /\ eliteBarrel /\ p.age # NULL
        THEN IF p.age <= 21 THEN <<140>>
             ELSE IF p.age = 22 THEN <<130>>
             ELSE IF p.age = 23 THEN <<120>>
             ELSE IF p.age <= 25 THEN <<110>>
             ELSE <<>>
        ELSE <<>>

EliteYoungTalent(p) ==
    LET eliteHardHit == p.hardHitRate # NULL /\ p.hardHitRate > 550
        eliteBarrel  == p.barrelRate # NULL /\ p.barrelRate > 130
    IN  IF eliteHardHit /\ eliteBarrel /\ p.age # NULL
        THEN IF p.age <= 21 THEN <<140>>
             ELSE IF p.age = 22 THEN <<130>>
             ELSE IF p.age = 23 THEN <<120>>
             ELSE IF p.age = 24 THEN <<110>>
             ELSE <<>>
        ELSE <<>>

\* The factors for given outcomes of the conditions, in the code's order
FactorsFor(p, hardHit, barrel, batSpeed, lowK, barrelGain, hardHitGain, chase, exploded, count) ==
    Times(hardHit, 110) \o Times(barrel, 110) \o Times(batSpeed, 108)
    \o Times(lowK, 108) \o Times(barrelGain, 115) \o Times(hardHitGain, 112)
    \o Times(chase, 110) \o Times(exploded, 75)
    \o Times(hardHit /\ barrel /\ batSpeed /\ lowK, 115)
    \o Times(count >= 2, 120)
    \o EliteYoungTalent(p)

\* The factors with given thresholds for hardHitRate and for
\* kRateImprovement (stable from, exploded below), the barrel and
\* hard-hit gains gated on stability in the factors and in the count or
\* not, and the 1.20 factor repeated for a third improvement or not
FactorsWith(p, hardHitAbove, stableFrom, explodedBelow, gated, countGated, repeated) ==
    LET known(f)  == p[f] # NULL
        stable    == ~known("kRateImprovement")
                     \/ p.kRateImprovement >= stableFrom
        barrelUp  == known("barrelImprovement") /\ p.barrelImprovement > 20
        hardHitUp == known("hardHitImprovement") /\ p.hardHitImprovement > 30
        chase     == known("chaseImprovement") /\ p.chaseImprovement > 20
        count     == (IF barrelUp /\ (stable \/ ~countGated) THEN 1 ELSE 0)
                     + (IF hardHitUp /\ (stable \/ ~countGated) THEN 1 ELSE 0)
                     + (IF chase THEN 1 ELSE 0)
    IN  FactorsFor(p,
                   known("hardHitRate") /\ p.hardHitRate > hardHitAbove,
                   known("barrelRate") /\ p.barrelRate > 100,
                   known("batSpeed") /\ p.batSpeed > 73,
                   known("kRate") /\ p.kRate < 200,
                   barrelUp /\ (stable \/ ~gated),
                   hardHitUp /\ (stable \/ ~gated),
                   chase,
                   known("kRateImprovement")
                     /\ p.kRateImprovement < explodedBelow,
                   count)
        \o Times(repeated /\ count >= 3, 120)

\* The hard-hit bonus from a rate of 0.45 itself
EliteProfileHardHitFrom450(p) == FactorsWith(p, 449, -30, -50, TRUE, TRUE, FALSE)

\* The barrel and hard-hit gains not gated on a stable strikeout rate
EliteProfileUngated(p) == FactorsWith(p, 450, -30, -50, FALSE, TRUE, FALSE)

\* The 1.20 factor once more for a third improvement
EliteProfileRepeated(p) == FactorsWith(p, 450, -30, -50, TRUE, TRUE, TRUE)

\* The explosion penalty from a change of -0.05 itself
EliteProfileExplodedFrom50(p) == FactorsWith(p, 450, -30, -49, TRUE, TRUE, FALSE)

\* The improvement count taken over the ungated improvements
EliteProfileCountUngated(p) == FactorsWith(p, 450, -30, -50, TRUE, FALSE, FALSE)

EliteProfileMultiplier(p) ==
    LET hardHitAboveAvg  == p.hardHitRate # NULL /\ p.hardHitRate > 450
        barrelAboveAvg   == p.barrelRate # NULL /\ p.barrelRate > 100
        batSpeedAboveAvg == p.batSpeed # NULL /\ p.batSpeed > 73
        lowKRate         == p.kRate # NULL /\ p.kRate < 200
        barrelImproving  == p.barrelImprovement # NULL
                            /\ p.barrelImprovement > 20
        hardHitImproving == p.hardHitImprovement # NULL
                            /\ p.hardHitImprovement > 30
        chaseImproving   == p.chaseImprovement # NULL
                            /\ p.chaseImprovement > 20
        kRateStable      == p.kRateImprovement = NULL
                            \/ p.kRateImprovement >= -30
        kRateExploded    == p.kRateImprovement # NULL
                            /\ p.kRateImprovement < -50
        improvementCount ==
            (IF barrelImproving /\ kRateStable THEN 1 ELSE 0)
            + (IF hardHitImproving /\ kRateStable THEN 1 ELSE 0)
            + (IF chaseImproving THEN 1 ELSE 0)
    IN  Times(hardHitAboveAvg, 110)
        \o Times(barrelAboveAvg, 110)
        \o Times(batSpeedAboveAvg, 108)
        \o Times(lowKRate, 108)
        \o Times(barrelImproving /\ kRateStable, 115)
        \o Times(hardHitImproving /\ kRateStable, 112)
        \o Times(chaseImproving, 110)
        \o Times(kRateExploded, 75)
        \o Times(hardHitAboveAvg /\ barrelAboveAvg
                 /\ batSpeedAboveAvg /\ lowKRate, 115)
        \o Times(improvementCount >= 2, 120)
        \o EliteYoungTalent(p)

\* The multipliers applied to Math.round(total) instead of total
AdjustedRounded(total, ageMultiplier, sampleMultiplier, eliteProfileMultiplier) ==
    QMulAll(QMul(QMul(QFrac(Frac(MathRound(QFrac(total)), 1)),
                      Frac(ageMultiplier, 100)),
                 Frac(sampleMultiplier, 100)),
            eliteProfileMultiplier)

\* total * ageMultiplier * sampleMultiplier * eliteProfileMultiplier
AdjustedScore(total, ageMultiplier, sampleMultiplier, eliteProfileMultiplier) ==
    QMulAll(QMul(QMul(QFrac(total), Frac(ageMultiplier, 100)),
                 Frac(sampleMultiplier, 100)),
            eliteProfileMultiplier)

\* -------------------------------------------- the advisory tables
\* Multipliers the module defines next to the two the engine applies.
\* They are in hundredths; launchAngleDelta is in degrees.
K_RATE_PENALTIES_getPenalty(kRate) ==
    IF kRate = NULL THEN 100
    ELSE IF kRate >= 300 THEN 85
    ELSE IF kRate >= 250 THEN 95
    ELSE 100

CAREER_CONTEXT_getMultiplier(currentWoba, careerWoba) ==
    IF currentWoba = NULL \/ careerWoba = NULL THEN 100
    ELSE LET context == currentWoba - careerWoba
         IN  IF context > 25 THEN 75
             ELSE IF context < -20 THEN 110
             ELSE 100

SOPHOMORE_SLUMP_getMultiplier(age, currentWoba, careerWoba, yearsInMLB) ==
    IF currentWoba = NULL \/ careerWoba = NULL THEN 100
    ELSE LET context == currentWoba - careerWoba
         IN  IF /\ yearsInMLB # NULL /\ yearsInMLB >= 1 /\ yearsInMLB <= 3
                /\ context > 30
             THEN 65
             ELSE 100

YEARS_OF_SERVICE_getMultiplier(yearsInMLB) ==
    IF yearsInMLB = NULL THEN 85
    ELSE IF yearsInMLB = 1 THEN 80
    ELSE IF yearsInMLB = 2 THEN 90
    ELSE IF yearsInMLB = 3 THEN 95
    ELSE IF yearsInMLB >= 6 THEN 95
    ELSE 100

CHASE_RATE_FILTER_getSurplusReliability(chaseRate, xwobaSurplus) ==
    IF chaseRate = NULL \/ xwobaSurplus = NULL THEN 100
    ELSE IF xwobaSurplus > 35 /\ chaseRate > 300 THEN 70
    ELSE IF xwobaSurplus > 35 /\ chaseRate > 270 THEN 85
    ELSE 100

BAT_SPEED_BOOST_getMultiplier(batSpeed, currentWoba) ==
    IF batSpeed = NULL \/ currentWoba = NULL THEN 100
    ELSE IF batSpeed >= 74 /\ currentWoba < 330 THEN 110
    ELSE 100

LAUNCH_ANGLE_CHANGE_getMultiplier(launchAngleDelta, age) ==
    IF launchAngleDelta = NULL \/ age = NULL THEN 100
    ELSE IF launchAngleDelta >= 3 /\ age <= 27 THEN 112
    ELSE 100

PULL_RATE_BOOST_getMultiplier(pullRate, y) ==
    IF pullRate = NULL \/ y = NULL THEN 100
    ELSE IF pullRate > 480 /\ y >= 2023 THEN 108
    ELSE 100

\* (first: the forEach body with the career-context multiplier wired
\* into the combined adjustment)
ScoreOneWithCareerContext(p, w) ==
    LET total                  == Total(p, w)
        ageMultiplier          == AGE_MULTIPLIERS_getMultiplier(p.age)
        sampleMultiplier       == SAMPLE_SIZE_ADJUSTMENTS_getMultiplier(p.pa)
        eliteProfileMultiplier == EliteProfileMultiplier(p)
        careerContext          == CAREER_CONTEXT_getMultiplier(p.currentWoba,
                                                               p.careerWoba)
        adjustedScore          == AdjustedScore(total, ageMultiplier,
                                      sampleMultiplier,
                                      eliteProfileMultiplier
                                        \o <<careerContext>>)
    IN  [p EXCEPT
           !.breakoutScore = MathRound(adjustedScore),
           !._adjustments  = [age          |-> ageMultiplier,
                              sampleSize   |-> sampleMultiplier,
                              eliteProfile |-> eliteProfileMultiplier,
                              rawScore     |-> MathRound(QFrac(total))]]

\* The body of the scoring forEach: the object p after the callback
ScoreOne(p, w) ==
    LET total                  == Total(p, w)
        ageMultiplier          == AGE_MULTIPLIERS_getMultiplier(p.age)
        sampleMultiplier       == SAMPLE_SIZE_ADJUSTMENTS_getMultiplier(p.pa)
        eliteProfileMultiplier == EliteProfileMultiplier(p)
        adjustedScore          == AdjustedScore(total, ageMultiplier,
                                      sampleMultiplier, eliteProfileMultiplier)
    IN  [p EXCEPT
           !.breakoutScore = MathRound(adjustedScore),
           !._adjustments  = [age          |-> ageMultiplier,
                              sampleSize   |-> sampleMultiplier,
                              eliteProfile |-> eliteProfileMultiplier,
                              rawScore     |-> MathRound(QFrac(total))]]

\* The comparator with its operands exchanged (ascending order)
SortCompareAscending(a, b) == a.breakoutScore - b.breakoutScore

\* The comparator of players.sort
SortCompare(a, b) == b.breakoutScore - a.breakoutScore

\* Array.prototype.sort is stable: an element is placed behind every
\* element the comparator does not order after it.
RECURSIVE InsertRef(_, _, _)
InsertRef(objs, sorted, r) ==
    IF sorted = <<>> THEN <<r>>
    ELSE IF SortCompare(objs[Head(sorted)], objs[r]) <= 0
         THEN <<Head(sorted)>> \o InsertRef(objs, Tail(sorted), r)
         ELSE <<r>> \o sorted

RECURSIVE SortRefs(_, _)
SortRefs(objs, refs) ==
    IF refs = <<>> THEN <<>>
    ELSE InsertRef(objs, SortRefs(objs, SubSeq(refs, 1, Len(refs) - 1)),
                   refs[Len(refs)])

\* computeBreakoutScore(players, year) where players holds references to
\* the objects objs: the objects after the call and the returned array.
computeBreakoutScore(objs, y, w) ==
    LET players  == [i \in 1..Len(objs) |-> i]
        hitters  == SelectSeq(players, LAMBDA r : NotPitcher(objs[r]))
        kept     == SelectSeq(hitters, LAMBDA r : NotEstablishedStar(objs[r]))
        fresh    == [k \in DOMAIN kept |->
                       [objs[kept[k]] EXCEPT
                          !._raw = scorePlayer(objs[kept[k]], y),
                          !._scores = << >>]]
        normed   == normalizeAll(fresh, FeatureKeys)
        scored   == [k \in DOMAIN kept |-> ScoreOne(normed[k], w)]
        pos(i)   == CHOOSE k \in DOMAIN kept : kept[k] = i
        inKept   == {kept[k] : k \in DOMAIN kept}
        after    == [i \in DOMAIN objs |->
                       IF i \in inKept THEN scored[pos(i)] ELSE objs[i]]
    IN  [heap |-> after, result |-> SortRefs(after, kept)]


\* ------------------------------------------------------- the cohorts
\* A player record as the data files and HISTORICAL_DATA give it: every
\* statistic is optional.  The four derived properties are not set yet.
Unscored ==
    [name |-> "?", position |-> << >>, age |-> NULL, pa |-> NULL,
     currentWoba |-> NULL, woba25 |-> NULL, woba24 |-> NULL,
     xwoba25 |-> NULL, xwoba24 |-> NULL, xwobaSurplus |-> NULL,
     hardHitRate |-> NULL, barrelRate |-> NULL, batSpeed |-> NULL,
     kRate |-> NULL, chaseRate |-> NULL,
     barrelImprovement |-> NULL, hardHitImprovement |-> NULL,
     chaseImprovement |-> NULL, kRateImprovement |-> NULL,
     careerWoba |-> NULL, yearsInMLB |-> NULL, pullRate |-> NULL,
     launchAngle |-> NULL, launchAngleDelta |-> NULL,
     xwobaTrajectory |-> NULL,
     _raw |-> << >>, _scores |-> << >>, _adjustments |-> << >>,
     breakoutScore |-> NULL]

Hitter(name) == [Unscored EXCEPT !.name = name, !.position = <<"S", "S">>]

Years == {2025, 2026}

\* Complete profiles, scored together in cohorts of any composition
ScorePool ==
    { [Hitter("Anthony") EXCEPT
         !.position = <<"O", "F">>, !.age = 21, !.pa = 350,
         !.currentWoba = 360, !.xwoba25 = 370, !.xwoba24 = 340,
         !.xwobaSurplus = 10, !.hardHitRate = 570, !.barrelRate = 140,
         !.batSpeed = 75, !.kRate = 190, !.chaseRate = 250,
         !.barrelImprovement = 30, !.hardHitImprovement = 40,
         !.chaseImprovement = 30, !.kRateImprovement = 10,
         !.careerWoba = 340, !.yearsInMLB = 2, !.pullRate = 490],
      [Hitter("Veteran") EXCEPT
         !.position = <<"1", "B">>, !.age = 33, !.pa = 150,
         !.currentWoba = 300, !.xwoba25 = 290, !.xwoba24 = 310,
         !.xwobaSurplus = -10, !.hardHitRate = 350, !.barrelRate = 40,
         !.batSpeed = 70, !.kRate = 320, !.chaseRate = 340,
         !.barrelImprovement = -10, !.hardHitImprovement = -20,
         !.chaseImprovement = -10, !.kRateImprovement = -60,
         !.careerWoba = 330, !.yearsInMLB = 9],
      Hitter("Blank"),
      [Hitter("Prime") EXCEPT
         !.position = <<"C">>, !.age = 25, !.pa = 600,
         !.woba25 = 330, !.xwoba25 = 350, !.xwobaSurplus = 20,
         !.hardHitRate = 460, !.barrelRate = 110, !.kRate = 250,
         !.barrelImprovement = 25, !.hardHitImprovement = 35,
         !.kRateImprovement = -40,
         !.currentWoba = 330, !.careerWoba = 360, !.yearsInMLB = 2,
         !.launchAngle = 14, !.launchAngleDelta = 4,
         !.xwobaTrajectory = 10],
      [Hitter("Mid") EXCEPT
         !.position = <<"2", "B">>, !.age = 28, !.pa = 250,
         !.woba24 = 320,
         !.xwoba25 = 320, !.xwoba24 = 320, !.xwobaSurplus = 0,
         !.hardHitRate = 455, !.barrelRate = 90, !.batSpeed = 74,
         !.kRate = 210,
         !.barrelImprovement = 21, !.hardHitImprovement = 0,
         !.chaseImprovement = 25, !.kRateImprovement = -30],
      [Hitter("Ace") EXCEPT
         !.position = <<"S", "P">>, !.age = 27, !.pa = 60,
         !.hardHitRate = 600, !.barrelRate = 200, !.kRate = 100,
         !.xwoba25 = 400, !.xwoba24 = 400],
      [Hitter("Star") EXCEPT
         !.position = <<"O", "F">>, !.age = 26, !.pa = 500,
         !.currentWoba = 400, !.xwoba25 = 410, !.xwoba24 = 390,
         !.xwobaSurplus = 10, !.hardHitRate = 580, !.barrelRate = 180,
         !.batSpeed = 76, !.kRate = 150, !.chaseRate = 200] }

RECURSIVE SeqsUpTo(_, _)
SeqsUpTo(S, n) ==
    \* the sequences over S of length at most n
    IF n = 0 THEN {<< >>}
    ELSE LET shorter == SeqsUpTo(S, n - 1)
         IN  shorter \cup {Append(q, x) : q \in shorter, x \in S}

ScoreCohorts == SeqsUpTo(ScorePool, MaxPlayers)

\* Records that differ in the fields one rule reads
Positions ==
    { << >>, <<"S", "S">>, <<"C">>, <<"P", "H">>,
      <<"S", "P">>, <<"R", "P">>, <<"P">>, <<"s", "p">>, <<"p">>,
      <<"O", "F", "/", "r", "p">> }

WobaTriples ==
    \* <<currentWoba, woba25, woba24>>
    { <<NULL, NULL, NULL>>, <<0, NULL, NULL>>, <<0, 0, 0>>,
      <<350, NULL, NULL>>, <<351, NULL, NULL>>, <<NULL, 351, NULL>>,
      <<NULL, NULL, 351>>, <<NULL, 300, 351>>, <<340, 400, 400>>,
      <<351, 300, 300>>, <<0, 351, 300>> }

FilterPool ==
    { [Hitter("F") EXCEPT !.currentWoba = w[1], !.woba25 = w[2],
                          !.woba24 = w[3], !.age = a, !.pa = n] :
        w \in WobaTriples, a \in {NULL, 23, 24}, n \in {NULL, 399, 400} }
    \cup
    { [Hitter("F") EXCEPT !.position = pos, !.currentWoba = w,
                          !.age = 22, !.pa = 100] :
        pos \in Positions, w \in {NULL, 351} }

AgePool ==
    { [Hitter("G") EXCEPT !.age = a, !.pa = 600] : a \in (18..36) \cup {NULL} }

SamplePool ==
    { [Hitter("S") EXCEPT !.age = 27, !.pa = n] :
        n \in { NULL, 0, 80, 149, 150, 151, 175, 199, 200, 201, 250, 299,
                300, 301, 350, 499, 500, 501, 600 } }

\* Records that differ in hard-hit rate alone, all of a 31% strikeout
\* rate, and the cohorts of one of them ahead of up to MaxPlayers - 1
\* others
RelativityPool ==
    { [Hitter("R") EXCEPT !.hardHitRate = h, !.kRate = 310] :
        h \in {300, 400, 500, 600, 700} }

RelativityCohorts ==
    { <<p>> \o rest :
        p \in {q \in RelativityPool : q.hardHitRate \in {300, 500}},
        rest \in SeqsUpTo(RelativityPool, MaxPlayers - 1) }

\* The two players of the end-to-end scenario: A above B on every
\* feature.  What the scenario leaves open is drawn from small sets.
ScenarioB ==
    [Hitter("B") EXCEPT
       !.age = 33, !.pa = 150, !.hardHitRate = 350, !.barrelRate = 40,
       !.kRate = 320, !.batSpeed = 70, !.chaseRate = 340,
       !.barrelImprovement = -10, !.hardHitImprovement = -10,
       !.chaseImprovement = -10, !.xwobaSurplus = -10,
       !.xwoba25 = 290, !.xwoba24 = 300]

ScenarioAs ==
    { [Hitter("A") EXCEPT
         !.age = 25, !.pa = 600, !.hardHitRate = 550, !.barrelRate = 120,
         !.kRate = 150, !.batSpeed = bat, !.chaseRate = 250,
         !.barrelImprovement = gain, !.hardHitImprovement = gain,
         !.chaseImprovement = gain, !.kRateImprovement = kgain,
         !.xwobaSurplus = 20, !.xwoba25 = 370, !.xwoba24 = 360] :
        bat \in {72, 75}, gain \in {10, 40}, kgain \in {NULL, -60} }

ScenarioCohorts ==
    {<<a, ScenarioB>> : a \in ScenarioAs}
      \cup {<<ScenarioB, a>> : a \in ScenarioAs}

\* A complete record, and the records it gives when groups of its
\* optional fields are missing; each is scored alone and next to a
\* complete record
Complete ==
    [Hitter("N") EXCEPT
       !.age = 26, !.pa = 450, !.currentWoba = 320,
       !.hardHitRate = 470, !.barrelRate = 105, !.batSpeed = 74,
       !.kRate = 180, !.chaseRate = 260,
       !.barrelImprovement = 25, !.hardHitImprovement = 35,
       !.chaseImprovement = 25, !.kRateImprovement = -10,
       !.xwobaSurplus = 20, !.xwoba25 = 340, !.xwoba24 = 330]

FieldGroups ==
    { {"age"}, {"pa"}, {"hardHitRate", "barrelRate"}, {"batSpeed", "kRate"},
      {"barrelImprovement", "hardHitImprovement", "chaseImprovement",
       "kRateImprovement"},
      {"currentWoba", "chaseRate", "xwobaSurplus", "xwoba25", "xwoba24"} }

Without(p, fields) ==
    [f \in DOMAIN p |-> IF f \in fields THEN NULL ELSE p[f]]

MissingDataPool ==
    { Without(Complete, UNION groups) : groups \in SUBSET FieldGroups }

MissingDataCohorts ==
    {<<p>> : p \in MissingDataPool}
      \cup {<<p, [Complete EXCEPT !.name = "M", !.hardHitRate = 420,
                                 !.xwoba25 = 300, !.chaseRate = 300]>> :
               p \in MissingDataPool}

\* Records on both sides of every threshold of the elite-profile rules:
\* the current-skill thresholds, the year-over-year improvements with the
\* strikeout-rate change, and the elite young hitters by age, with and
\* without the wOBA that makes them established stars from age 24
SkillPool ==
    { [Hitter("K") EXCEPT !.hardHitRate = h, !.barrelRate = b,
                          !.batSpeed = s, !.kRate = k] :
        h \in {NULL, 450, 451}, b \in {NULL, 100, 101},
        s \in {NULL, 73, 74}, k \in {NULL, 199, 200} }

TrendPool ==
    { [Hitter("T") EXCEPT !.barrelImprovement = b, !.hardHitImprovement = h,
                          !.chaseImprovement = c, !.kRateImprovement = k] :
        b \in {NULL, 20, 21}, h \in {NULL, 30, 31}, c \in {NULL, 20, 21},
        k \in {NULL, -51, -50, -31, -30, 0} }

YoungPool ==
    { [Hitter("Y") EXCEPT !.age = a, !.pa = 350, !.currentWoba = w,
                          !.hardHitRate = h, !.barrelRate = b] :
        a \in {NULL, 20, 21, 22, 23, 24, 25}, w \in {320, 360},
        h \in {550, 551}, b \in {130, 131} }

BonusCohorts == {<<p>> : p \in SkillPool \cup TrendPool \cup YoungPool}

\* ------------------------------------------------- the data files
\* fetchYear (fetch-data-updated.js) writes /data/players-<year>.json.
\* A row is what fetchYear has for one player of the expected-statistics
\* leaderboard: pa, woba, est_woba and pos of the row itself, and the
\* entries of prevYearMap, actualResultsMap, statcastMap, statcastPrevMap,
\* chasePrevMap and mlbBirthDateMap for the player (<< >> for a map
\* without an entry of the player, NULL for a missing number).  Numbers are in thousandths, so a Statcast percentage of 45.2
\* is 45200 and 45.2 / 100 is 452; bat speed and launch angles are whole.
FieldOf(obj, key) == IF obj = << >> THEN NULL ELSE obj[key]

\* The player object fetchYear builds for a row
playerObj(row, targetYear) ==
    LET currentWoba  == row.woba
        currentXwoba == row.est_woba
        prevYearData == row.prevYearData
        statcastData == row.statcastData
        statcastPrevData == row.statcastPrevData
        chasePrev    == row.chasePrev
        currentHardHit == FieldOf(statcastData, "hard_hit_percent")
        prevHardHit    == FieldOf(statcastPrevData, "hard_hit_percent")
        hardHitImprovement ==
            IF currentHardHit # NULL /\ prevHardHit # NULL
            THEN currentHardHit - prevHardHit ELSE NULL
        currentBarrel  == FieldOf(statcastData, "barrel_batted_rate")
        prevBarrel     == FieldOf(statcastPrevData, "barrel_batted_rate")
        barrelImprovement ==
            IF currentBarrel # NULL /\ prevBarrel # NULL
            THEN currentBarrel - prevBarrel ELSE NULL
        currentKRate   == FieldOf(statcastData, "k_percent")
        prevKRate      == FieldOf(statcastPrevData, "k_percent")
        kRateImprovement ==
            IF currentKRate # NULL /\ prevKRate # NULL
            THEN prevKRate - currentKRate ELSE NULL
        currentChase   == FieldOf(statcastData, "o_swing_percent")
        chaseImprovement ==
            IF currentChase # NULL /\ chasePrev # NULL
            THEN chasePrev - currentChase ELSE NULL
        currentLaunchAngle == FieldOf(statcastData, "launch_angle")
        prevLaunchAngle    == FieldOf(statcastPrevData, "launch_angle")
        launchAngleDelta ==
            IF currentLaunchAngle # NULL /\ prevLaunchAngle # NULL
            THEN currentLaunchAngle - prevLaunchAngle ELSE NULL
        Rate(percent) == IF Falsy(percent) THEN NULL ELSE percent \div 100
        obj ==
            [Unscored EXCEPT
               !.name = row.name,
               !.age = NULL,
               !.pa = row.pa,
               !.position = row.pos,
               !.currentWoba = currentWoba,
               !.careerWoba = currentWoba,
               !.xwobaSurplus = currentXwoba - currentWoba,
               !.xwobaTrajectory =
                   IF prevYearData # << >>
                   THEN currentXwoba - prevYearData.xwoba ELSE 0,
               !.hardHitRate = Rate(currentHardHit),
               !.barrelRate = Rate(currentBarrel),
               !.kRate = Rate(currentKRate),
               !.chaseRate = Rate(currentChase),
               !.pullRate = Rate(FieldOf(statcastData, "pull_percent")),
               !.launchAngle = currentLaunchAngle,
               !.launchAngleDelta = launchAngleDelta,
               !.batSpeed = FieldOf(statcastData, "avg_bat_speed"),
               !.hardHitImprovement = hardHitImprovement,
               !.barrelImprovement = barrelImprovement,
               !.kRateImprovement = kRateImprovement,
               !.chaseImprovement = chaseImprovement]
        suffixed ==
            <<<<"woba" \o YearSuffix(targetYear - 1), currentWoba>>,
              <<"xwoba" \o YearSuffix(targetYear - 1), currentXwoba>>,
              <<"woba" \o YearSuffix(targetYear - 2),
                FieldOf(prevYearData, "woba")>>,
              <<"xwoba" \o YearSuffix(targetYear - 2),
                FieldOf(prevYearData, "xwoba")>>,
              <<"woba" \o YearSuffix(targetYear),
                FieldOf(row.actualResults, "woba")>>>>
        set(o, k) == SetProp(o, suffixed[k][1], suffixed[k][2])
    IN  set(set(set(set(set(SetProp(obj, "birthDate", row.birthDate),
                            1), 2), 3), 4), 5)

\* The rows fetchYear keeps: 100 PA or more, wOBA and xwOBA present, not
\* a pitcher
KeptRow(row) ==
    LET pos == toUpperCase(row.pos)
    IN  /\ row.pa >= 100
        /\ ~Falsy(row.woba) /\ ~Falsy(row.est_woba)
        /\ ~(includes(pos, <<"S", "P">>) \/ includes(pos, <<"R", "P">>)
             \/ pos = <<"P">>)

\* The players of the file fetchYear(targetYear) writes
fetchYear(rows, targetYear) ==
    LET kept == SelectSeq(rows, KeptRow)
    IN  [k \in DOMAIN kept |-> playerObj(kept[k], targetYear)]

\* Statcast rows of two seasons that differ by half a point, by the
\* points the thresholds name, and by a tenth of a point more
StatcastRow(hardHit, barrel, k, chase) ==
    [hard_hit_percent |-> hardHit, barrel_batted_rate |-> barrel,
     k_percent |-> k, o_swing_percent |-> chase, pull_percent |-> 40000,
     launch_angle |-> 12, avg_bat_speed |-> 72]

LiveRows ==
    { [name |-> "L", pos |-> <<"O", "F">>, pa |-> 450, woba |-> 320,
       est_woba |-> 335, birthDate |-> NULL,
       prevYearData |-> [xwoba |-> 325, woba |-> 315],
       actualResults |-> << >>,
       statcastData |-> StatcastRow(40000 + h, 8000 + b, 22000 - k, 30000 - c),
       statcastPrevData |-> StatcastRow(40000, 8000, 22000, 30000),
       chasePrev |-> 30000] :
        h \in {500, 3000, 3100}, b \in {500, 2000, 2100},
        k \in {0, -500, -3100, -5100}, c \in {500, 2100} }

\* The files of one kept player each
LiveCohorts(targetYear) == {fetchYear(<<row>>, targetYear) : row \in LiveRows}

\* One such record ahead of up to MaxPlayers - 1 plain hitters
FocusCohorts ==
    { <<p>> \o rest :
        p \in FilterPool \cup AgePool \cup SamplePool,
        rest \in SeqsUpTo({Hitter("Blank")}, MaxPlayers - 1) }

\* The array loadDemo and loadLive hand to computeBreakoutScore:
\* processed.map(p => ({ ...p })) and data.players.map(p => ({ ...p, age })).
\* Every element is a new object with the properties of its record
\* (same[k] = 0: element k is none of the records).
\* (first: the records themselves handed over, without the spread)
HandedOver(recs) ==
    [objs |-> recs, same |-> [k \in DOMAIN recs |-> k]]

SpreadCopies(recs) ==
    [objs |-> recs, same |-> [k \in DOMAIN recs |-> 0]]

\* The records after the objects of the array were written to: a record
\* changes when an element of the array is that very record
WrittenThrough(recs, same, objs) ==
    [i \in DOMAIN recs |->
       IF \E k \in DOMAIN same : same[k] = i
       THEN objs[CHOOSE k \in DOMAIN same : same[k] = i]
       ELSE recs[i]]

Init ==
    /\ weights = WEIGHTS
    /\ year \in Years
    /\ records \in ScoreCohorts \cup FocusCohorts \cup RelativityCohorts
                    \cup ScenarioCohorts \cup MissingDataCohorts
                    \cup BonusCohorts \cup LiveCohorts(year)
    /\ heap = SpreadCopies(records).objs
    /\ alias = SpreadCopies(records).same
    /\ ranked = << >>
    /\ calls = 0
    /\ shown = << >>
    /\ selectedYear = year
    /\ loading = FALSE
    /\ dataSource = NullString
    /\ error = NullString
    /\ pending = << >>

\* One call computeBreakoutScore(players, year) on the cohort
Score ==
    /\ calls < MaxCalls
    /\ LET r == computeBreakoutScore(heap, year, weights)
       IN  /\ heap' = r.heap
           /\ ranked' = r.result
           /\ records' = WrittenThrough(records, alias, r.heap)
    /\ calls' = calls + 1
    /\ UNCHANGED <<weights, year, alias, shown, app>>

\* App's filter state as initialised (position and team "All")
minAge == 18
maxAge == 35
showTop == 25

\* const filtered = players.filter(...).slice(0, showTop)
filtered(objs, players) ==
    LET passing == SelectSeq(players, LAMBDA r :
                     ~(objs[r].age # NULL
                       /\ (objs[r].age < minAge \/ objs[r].age > maxAge)))
    IN  SubSeq(passing, 1, IF Len(passing) < showTop THEN Len(passing)
                           ELSE showTop)

\* RankingsTable: one row per player of filtered, with the quality tier
\* of its score and the confidence tier of its plate appearances
RankingsTable ==
    /\ shown' = [k \in DOMAIN filtered(heap, ranked) |->
                   LET p == heap[filtered(heap, ranked)[k]]
                   IN  [player         |-> filtered(heap, ranked)[k],
                        tier           |-> getTier(p.breakoutScore).label,
                        confidenceTier |->
                            SAMPLE_SIZE_ADJUSTMENTS_getTier(p.pa).label]]
    /\ UNCHANGED <<weights, year, records, heap, alias, ranked, calls, app>>

Next == Score \/ RankingsTable

Spec == Init /\ [][Next]_vars


\* ============================================================= the App
\* The App component: its state, the two loaders and the handlers of
\* the year toggle and the refresh button.

\* ------------------------------------------------------------ bounds
MaxLoads == 2    \* loadLive invocations in flight at one time
DemoSize == 2    \* players of each season of HISTORICAL_DATA kept

\* An entry of HISTORICAL_DATA
DemoPlayer(name, pos, age, pa, hardHit, barrel, k) ==
    [Unscored EXCEPT
       !.name = name, !.position = pos, !.age = age, !.pa = pa,
       !.hardHitRate = hardHit, !.barrelRate = barrel, !.kRate = k]

\* Its wOBA and xwOBA of the seasons prev and cur
Seasons(p, prev, cur, wobaPrev, wobaCur, xwobaPrev, xwobaCur) ==
    SetProp(SetProp(SetProp(SetProp(p,
        "woba" \o prev, wobaPrev), "woba" \o cur, wobaCur),
        "xwoba" \o prev, xwobaPrev), "xwoba" \o cur, xwobaCur)

\* The seasons the toggle offers, the first DemoSize players of each
HISTORICAL_DATA ==
    LET y2025 ==
          <<Seasons(DemoPlayer("Jackson Holliday", <<"S", "S">>, 21, 187,
                               460, 80, 305),
                    "23", "24", NULL, 265, NULL, 348),
            Seasons(DemoPlayer("Triston Casas", <<"1", "B">>, 25, 220,
                               540, 135, 235),
                    "23", "24", 355, 305, 370, 382),
            Seasons(DemoPlayer("James Wood", <<"O", "F">>, 21, 362,
                               520, 110, 261),
                    "23", "24", NULL, 333, NULL, 368),
            Seasons(DemoPlayer("Junior Caminero", <<"3", "B">>, 21, 351,
                               510, 98, 237),
                    "23", "24", 312, 318, 335, 364)>>
        y2026 ==
          <<Seasons(DemoPlayer("Jackson Chourio", <<"O", "F">>, 21, 530,
                               490, 81, 233),
                    "24", "25", 311, 297, 328, 342),
            Seasons(DemoPlayer("Jackson Merrill", <<"O", "F">>, 22, 514,
                               470, 71, 215),
                    "24", "25", NULL, 314, NULL, 338),
            Seasons(DemoPlayer("Colt Keith", <<"3", "B">>, 23, 475,
                               440, 65, 194),
                    "24", "25", NULL, 308, NULL, 351),
            Seasons(DemoPlayer("Colton Cowser", <<"O", "F">>, 25, 386,
                               500, 112, 248),
                    "24", "25", 318, 316, 330, 360)>>
    IN  [y \in {2025, 2026} |->
           SubSeq(IF y = 2025 THEN y2025 ELSE y2026, 1, DemoSize)]

\* processDemoData(raw, year).  The difference of two rates is rounded
\* to three decimals by toFixed(3), which leaves the exact difference of
\* their thousandths.
processDemoData(raw, y) ==
    LET fields == getFieldNames(y)
        one(p) ==
            LET currentXwoba == Prop(p, fields.currentXwoba)
                prevXwoba    == Prop(p, fields.prevXwoba)
                currentWoba  == Prop(p, fields.currentWoba)
                launchAngleDelta ==
                    IF Prop(p, "launchAngle25") # NULL
                       /\ Prop(p, "launchAngle24") # NULL
                    THEN p.launchAngle25 - p.launchAngle24 ELSE NULL
                playerCurrentWoba == OrElse(p.currentWoba, currentWoba)
                playerCareerWoba  == OrElse(p.careerWoba, playerCurrentWoba)
                age == IF p.age = NULL THEN 0 ELSE p.age
                yearsInMLB ==
                    IF p.yearsInMLB # NULL THEN p.yearsInMLB
                    ELSE IF Prop(p, "woba24") = NULL /\ age <= 23 THEN 1
                    ELSE IF Prop(p, "woba24") # NULL /\ age <= 24 THEN 2
                    ELSE IF age <= 26 THEN 3
                    ELSE IF age <= 28 THEN 4
                    ELSE 6
            IN  [p EXCEPT
                   !.xwobaSurplus =
                       IF currentXwoba # NULL /\ currentWoba # NULL
                       THEN currentXwoba - currentWoba ELSE NULL,
                   !.xwobaTrajectory =
                       IF currentXwoba # NULL /\ prevXwoba # NULL
                       THEN currentXwoba - prevXwoba ELSE 0,
                   !.launchAngleDelta = launchAngleDelta,
                   !.currentWoba = playerCurrentWoba,
                   !.careerWoba = playerCareerWoba,
                   !.yearsInMLB = yearsInMLB]
    IN  [k \in DOMAIN raw |-> one(raw[k])]

\* What the table shows of the players: LoadingState while loading, the
\* rows of filtered otherwise
Rendered(isLoading, objs, refs) ==
    IF isLoading THEN << >>
    ELSE [k \in DOMAIN filtered(objs, refs) |->
            LET p == objs[filtered(objs, refs)[k]]
            IN  [player         |-> filtered(objs, refs)[k],
                 tier           |-> getTier(p.breakoutScore).label,
                 confidenceTier |->
                     SAMPLE_SIZE_ADJUSTMENTS_getTier(p.pa).label]]

\* (first: a loadDemo that leaves the loading flag as it finds it)
loadDemoStillLoading(y, w, isLoading) ==
    LET yearData  == IF y \in DOMAIN HISTORICAL_DATA
                     THEN HISTORICAL_DATA[y] ELSE HISTORICAL_DATA[2026]
        processed == processDemoData(yearData, y)
        r == computeBreakoutScore(SpreadCopies(processed).objs, y, w)
    IN  [records |-> processed, heap |-> r.heap, ranked |-> r.result,
         dataSource |-> "demo", loading |-> isLoading]

\* loadDemo of the render whose selectedYear is y: the state it sets
loadDemo(y, w, isLoading) ==
    LET yearData  == IF y \in DOMAIN HISTORICAL_DATA
                     THEN HISTORICAL_DATA[y] ELSE HISTORICAL_DATA[2026]
        processed == processDemoData(yearData, y)
        r == computeBreakoutScore(SpreadCopies(processed).objs, y, w)
    IN  [records |-> processed, heap |-> r.heap, ranked |-> r.result,
         dataSource |-> "demo", loading |-> FALSE]

\* Dates are numbers yyyymmdd: new Date() at the time the response is
\* handled, and the birth dates of the data file
Todays == {20260301, 20260901}

FileRow(name, birthDate, hardHit) ==
    [name |-> name, pos |-> <<"O", "F">>, pa |-> 450, woba |-> 320,
     est_woba |-> 335, birthDate |-> birthDate,
     prevYearData |-> [xwoba |-> 325, woba |-> 315],
     actualResults |-> << >>,
     statcastData |-> StatcastRow(hardHit, 8000, 22000, 30000),
     statcastPrevData |-> StatcastRow(40000, 8000, 22000, 30000),
     chasePrev |-> 30000]

\* /data/players-<year>.json as fetchYear(year) wrote it
DataFile(y) ==
    fetchYear(<<FileRow("A", 20030615, 45000), FileRow("B", NULL, 41000)>>,
              y)

\* A null among the players of a payload
JsonNull == << >>

\* What the fetch of one invocation can settle with: a rejection, a
\* response that is not ok, or a body that parses to one of these
Payloads(y) ==
    { [success |-> TRUE, players |-> DataFile(y)],
      [success |-> FALSE, players |-> DataFile(y)],
      [success |-> TRUE],
      [success |-> TRUE, players |-> <<JsonNull>>] }

NoResponse == [kind |-> "pending", data |-> << >>]

Responses(y) ==
    { [kind |-> "rejected", data |-> << >>],
      [kind |-> "notOk", data |-> << >>] }
      \cup { [kind |-> "json", data |-> d] : d \in Payloads(y) }

\* err.message of what the try block of loadLive throws on the response,
\* null when it runs to its end
Thrown(y, response) ==
    IF response.kind = "rejected" THEN "Failed to fetch"
    ELSE IF response.kind = "notOk"
    THEN "Failed to load data file for " \o ToString(y)
    ELSE IF ~response.data.success \/ "players" \notin DOMAIN response.data
    THEN "Invalid data format"
    ELSE IF \E k \in DOMAIN response.data.players :
               response.data.players[k] = JsonNull
    THEN "Cannot read properties of null (reading 'age')"
    ELSE NullString

\* data.players.map(p => ({ ...p, age })) with the age taken from the
\* birth date when the player has none
playersWithAge(players, today) ==
    [k \in DOMAIN players |->
       LET p == players[k]
           birthDate == p.birthDate
           years == (today \div 10000) - (birthDate \div 10000)
           monthDiff == ((today \div 100) % 100) - ((birthDate \div 100) % 100)
           age == IF ~Falsy(birthDate) /\ Falsy(p.age)
                  THEN IF monthDiff < 0
                          \/ (monthDiff = 0 /\ today % 100 < birthDate % 100)
                       THEN years - 1 ELSE years
                  ELSE p.age
       IN  [p EXCEPT !.age = age]]

\* The rest of loadLive once its fetch has settled, for the invocation
\* that closed over the year y: the state it sets
loadLive(y, response, today, w) ==
    IF Thrown(y, response) = NullString
    THEN LET withAge == playersWithAge(response.data.players, today)
             r == computeBreakoutScore(withAge, y, w)
         IN  [records |-> withAge, heap |-> r.heap, ranked |-> r.result,
              dataSource |-> "live", loading |-> FALSE,
              error |-> NullString]
    ELSE LET demo == loadDemo(y, w, TRUE)
         IN  [records |-> demo.records, heap |-> demo.heap,
              ranked |-> demo.ranked, dataSource |-> demo.dataSource,
              loading |-> demo.loading,
              error |-> "Could not load data: " \o Thrown(y, response)]

\* What loadLive sets under the weights as configured, tabulated for
\* every year, response and day
Loads ==
    UNION { { [year |-> y, response |-> r, today |-> t,
               set |-> loadLive(y, r, t, WEIGHTS)] :
                r \in Responses(y), t \in Todays } : y \in Years }

Load(y, response, today, w) ==
    IF w = WEIGHTS
    THEN (CHOOSE l \in Loads :
              l.year = y /\ l.response = response /\ l.today = today).set
    ELSE loadLive(y, response, today, w)

RemoveAt(seq, k) ==
    [i \in 1..(Len(seq) - 1) |-> IF i < k THEN seq[i] ELSE seq[i + 1]]

\* The App after its first render and effect: nothing loaded, loadLive
\* called for the default year
AppInit ==
    /\ weights = WEIGHTS
    /\ selectedYear = 2026
    /\ year = 2026
    /\ records = << >>
    /\ heap = << >>
    /\ alias = << >>
    /\ ranked = << >>
    /\ calls = 0
    /\ shown = << >>
    /\ loading = TRUE
    /\ dataSource = NullString
    /\ error = NullString
    /\ pending = <<[year |-> 2026, response |-> NoResponse]>>

\* The start of loadLive, up to its await
Called(y) ==
    /\ Len(pending) < MaxLoads
    /\ loading' = TRUE
    /\ error' = NullString
    /\ pending' = Append(pending, [year |-> y, response |-> NoResponse])
    /\ shown' = Rendered(TRUE, heap, ranked)
    /\ UNCHANGED <<weights, year, records, heap, alias, ranked, calls,
                   dataSource>>

\* A click on the year y of the toggle: setSelectedYear(y), and the
\* effect of the render that follows calls loadLive
SetSelectedYear(y) ==
    /\ y # selectedYear
    /\ selectedYear' = y
    /\ Called(y)

\* A click on REFRESH
Refresh ==
    /\ selectedYear' = selectedYear
    /\ Called(selectedYear)

\* The fetch of invocation k settles
Respond(k, response) ==
    /\ pending[k].response = NoResponse
    /\ pending' = [pending EXCEPT ![k].response = response]
    /\ UNCHANGED <<weights, year, records, heap, alias, ranked, calls,
                   shown, selectedYear, loading, dataSource, error>>

\* Invocation k runs on from its await to its end
Continue(k, today) ==
    /\ pending[k].response # NoResponse
    /\ \E set \in {Load(pending[k].year, pending[k].response, today,
                         weights)} :
           /\ year' = pending[k].year
           /\ records' = set.records
           /\ heap' = set.heap
           /\ alias' = [i \in DOMAIN set.heap |-> 0]
           /\ ranked' = set.ranked
           /\ calls' = 1
           /\ dataSource' = set.dataSource
           /\ loading' = set.loading
           /\ error' = set.error
           /\ shown' = Rendered(set.loading, set.heap, set.ranked)
    /\ pending' = RemoveAt(pending, k)
    /\ UNCHANGED <<weights, selectedYear>>

Resumed == \E k \in DOMAIN pending : \E today \in Todays : Continue(k, today)

AppNext ==
    \/ \E y \in Years : SetSelectedYear(y)
    \/ Refresh
    \/ \E k \in DOMAIN pending :
           \E response \in Responses(pending[k].year) : Respond(k, response)
    \/ Resumed

AppSpec == AppInit /\ [][AppNext]_vars

\* A settled promise's continuation is a microtask: it runs before the
\* next click or response is handled
AppLive == AppSpec /\ WF_vars(Resumed)


\* ============================================================ claims
\* The objects of the returned array, in rank order
Output == [k \in DOMAIN ranked |-> heap[ranked[k]]]

\* What the caller sees of a ranked player: score, normalized scores and
\* adjustments
Visible(p) == <<p.name, p.breakoutScore, p._scores, p._adjustments>>

\* C1: scoring the same cohort again, its records now carrying the _raw,
\* _scores, _adjustments and breakoutScore of the call before, returns the
\* same players in the same rank order with the same breakoutScore, the
\* same normalized score per feature and the same adjustments.
C1_Idempotent ==
    [][calls >= 1 =>
         /\ ranked' = ranked
         /\ \A k \in DOMAIN ranked :
              Visible(heap'[ranked[k]]) = Visible(heap[ranked[k]])]_vars

\* A cohort of several ranked players, one with elite-profile factors,
\* scored twice
C1_Witness ==
    /\ calls = 2
    /\ Len(ranked) >= 2
    /\ \E k \in DOMAIN ranked : Output[k]._adjustments.eliteProfile # << >>
    /\ \E k \in DOMAIN ranked : Output[k]._adjustments.rawScore > 0

\* C2: the returned sequence is in non-increasing order of breakoutScore,
\* and players of equal breakoutScore keep their input order.
C2_SortedStable ==
    \A j, k \in DOMAIN ranked :
        j < k =>
          /\ Output[j].breakoutScore >= Output[k].breakoutScore
          /\ Output[j].breakoutScore = Output[k].breakoutScore
               => ranked[j] < ranked[k]

\* A returned array in which the sort moved a later player ahead of an
\* earlier one and left two players of equal score in input order
C2_Witness ==
    /\ calls >= 1
    /\ \E j, k \in DOMAIN ranked :
         j < k /\ ranked[j] > ranked[k]
         /\ Output[j].breakoutScore > Output[k].breakoutScore
    /\ \E j, k \in DOMAIN ranked :
         j < k /\ Output[j].breakoutScore = Output[k].breakoutScore

\* C3: the feature weights are 0.14, 0.14, 0.09, 0.15, 0.10, 0.08, 0.10,
\* 0.10, 0.07 and 0.03, they sum to 1.0, and scoring leaves them as they
\* are.
RECURSIVE SumOver(_, _)
SumOver(f, keys) ==
    IF keys = << >> THEN 0 ELSE f[Head(keys)] + SumOver(f, Tail(keys))

C3_WeightsSumToOne ==
    /\ weights = [hardHitRate |-> 14, barrelRate |-> 14, batSpeed |-> 9,
                  barrelImprovement |-> 15, hardHitImprovement |-> 10,
                  chaseImprovement |-> 8, kRateInverse |-> 10,
                  chaseRateInverse |-> 10, xwobaSurplus |-> 7,
                  xwobaLevel |-> 3]
    /\ SumOver(weights, FeatureKeys) = 100
    /\ DOMAIN weights = {FeatureKeys[i] : i \in DOMAIN FeatureKeys}

\* The weights after a cohort has been scored with them
C3_Witness ==
    /\ calls >= 1
    /\ ranked # << >>
    /\ SumOver(weights, FeatureKeys) = 100


\* The filtered cohort: the objects the last call kept and scored
Kept == {ranked[k] : k \in DOMAIN ranked}

Features == {FeatureKeys[i] : i \in DOMAIN FeatureKeys}

\* The non-null raw values of a feature in the filtered cohort
RawVals(f) == {heap[i]._raw[f] : i \in Kept} \ {NULL}

MinOf(S) == CHOOSE m \in S : \A v \in S : m <= v
MaxOf(S) == CHOOSE m \in S : \A v \in S : m >= v

\* A normalized score has the value k
Is(s, k) == s.n = k * s.d

\* C4 as stated: for every feature with a non-null value in the filtered
\* cohort, the holders of the minimum raw value get 0, the holders of the
\* maximum get 100, and every player whose raw value is null gets 50.
C4_Original ==
    \A f \in Features :
        RawVals(f) # {} =>
          \A i \in Kept :
              LET v == heap[i]._raw[f]
                  s == heap[i]._scores[f]
              IN  /\ v = NULL => Is(s, 50)
                  /\ v = MinOf(RawVals(f)) => Is(s, 0)
                  /\ v = MaxOf(RawVals(f)) => Is(s, 100)

\* C4 (amended): for every feature with a non-null value in the filtered
\* cohort, every player whose raw value is null gets 50 and the holders
\* of the minimum get 0; the holders of the maximum get 100 when the
\* maximum exceeds the minimum, and when all non-null values are equal
\* (the range is taken as 1) every one of them gets 0.
C4_NormalizationBounds ==
    \A f \in Features :
        RawVals(f) # {} =>
          \A i \in Kept :
              LET v == heap[i]._raw[f]
                  s == heap[i]._scores[f]
                  min == MinOf(RawVals(f))
                  max == MaxOf(RawVals(f))
              IN  /\ v = NULL => Is(s, 50)
                  /\ v = min => Is(s, 0)
                  /\ (v = max /\ max > min) => Is(s, 100)
                  /\ (v # NULL /\ max = min) => Is(s, 0)

\* A scored cohort with a feature that has a null, a minimum and a larger
\* maximum, and a feature whose non-null values are all equal
C4_Witness ==
    /\ calls >= 1
    /\ \E f \in Features :
         /\ Cardinality(RawVals(f)) >= 2
         /\ \E i \in Kept : heap[i]._raw[f] = NULL
    /\ \E g \in Features : Cardinality(RawVals(g)) = 1

\* The weights and multiplier tables as the claims state them
StatedWeights ==
    [hardHitRate |-> 14, barrelRate |-> 14, batSpeed |-> 9,
     barrelImprovement |-> 15, hardHitImprovement |-> 10,
     chaseImprovement |-> 8, kRateInverse |-> 10, chaseRateInverse |-> 10,
     xwobaSurplus |-> 7, xwobaLevel |-> 3]

StatedAgeMultiplier(age) ==
    CASE age = NULL -> 100
      [] age # NULL /\ age <= 23 -> 115
      [] age \in 24..26 -> 125
      [] age \in 27..28 -> 100
      [] age \in 29..30 -> 85
      [] age # NULL /\ age > 30 -> 70

StatedSampleMultiplier(pa) ==
    CASE pa = NULL -> 60
      [] pa # NULL /\ pa >= 500 -> 100
      [] pa \in 300..499 -> 95
      [] pa \in 200..299 -> 85
      [] pa \in 150..199 -> 75
      [] pa # NULL /\ pa < 150 -> 60

\* The sum over the ten features of normalized value times weight, with
\* 50 for a feature without an entry in the player's _scores
RECURSIVE StatedCompositeOver(_, _)
StatedCompositeOver(p, keys) ==
    IF keys = << >> THEN Frac(0, 1)
    ELSE LET f == Head(keys)
             v == IF f \in DOMAIN p._scores THEN p._scores[f] ELSE Frac(50, 1)
         IN  FracAdd(StatedCompositeOver(p, Tail(keys)),
                     FracMul(v, Frac(StatedWeights[f], 100)))

StatedComposite(p) == StatedCompositeOver(p, FeatureKeys)

\* C5: the raw composite of every scored player is the sum over the ten
\* features of normalized value times weight, with 50 for a feature that
\* has no entry in the player's _scores; a feature that is null for every
\* player of the filtered cohort has no entry for any of them.
C5_RawComposite ==
    \A i \in Kept :
        /\ heap[i]._adjustments.rawScore
             = MathRound(QFrac(StatedComposite(heap[i])))
        /\ \A f \in Features :
             RawVals(f) = {} <=> f \notin DOMAIN heap[i]._scores

\* A scored cohort with a feature that is null for every player and a
\* feature that is not
C5_Witness ==
    /\ calls >= 1
    /\ Kept # {}
    /\ \E f \in Features : RawVals(f) = {}
    /\ \E f \in Features : Cardinality(RawVals(f)) >= 2

StatedPitcher(pos) ==
    \/ \E i \in 1..(Len(pos) - 1) :
         /\ pos[i] \in {"S", "s", "R", "r"}
         /\ pos[i + 1] \in {"P", "p"}
    \/ pos \in {<<"P">>, <<"p">>}

\* The representative wOBA, parameterised by what makes a field usable:
\* the first usable one of currentWoba, woba25, woba24
WobaBy(p, Usable(_)) ==
    IF Usable(p.currentWoba) THEN p.currentWoba
    ELSE IF Usable(p.woba25) THEN p.woba25
    ELSE IF Usable(p.woba24) THEN p.woba24
    ELSE NULL

\* A field is known when it is set; it is present when it is set and
\* not zero
Known(v) == v # NULL

Present(v) == v # NULL /\ v # 0

StatedYoungLimited(p) ==
    /\ p.age # NULL /\ p.age < 24
    /\ p.pa # NULL /\ p.pa < 400

StarBy(p, Usable(_)) ==
    /\ WobaBy(p, Usable) # NULL
    /\ WobaBy(p, Usable) > 350
    /\ ~StatedYoungLimited(p)

StatedStar(p) == StarBy(p, Present)

StatedWoba(p) == WobaBy(p, Present)

\* C7: after a call no record with a pitcher position is in the output,
\* and every record left out of the output has a pitcher position or is
\* dropped as an established star; a missing position is no pitcher.
C7_PitcherExclusion ==
    calls >= 1 =>
      \A i \in DOMAIN heap :
          /\ StatedPitcher(heap[i].position) => i \notin Kept
          /\ i \notin Kept =>
               StatedPitcher(heap[i].position) \/ StatedStar(heap[i])
          /\ (heap[i].position = << >> /\ ~StatedStar(heap[i])) => i \in Kept

\* A scored cohort that lost a pitcher written in lower case and kept a
\* hitter
C7_Witness ==
    /\ calls >= 1
    /\ Kept # {}
    /\ \E i \in DOMAIN heap :
         /\ i \notin Kept
         /\ heap[i].position \in {<<"s", "p">>, <<"O", "F", "/", "r", "p">>}

\* C8 as stated, the representative wOBA being the first KNOWN one of
\* currentWoba, woba25, woba24: a non-pitcher is dropped exactly when that
\* wOBA is above .350 and the young, limited-sample exception does not
\* apply.
C8_Original ==
    calls >= 1 =>
      \A i \in DOMAIN heap :
          ~StatedPitcher(heap[i].position) =>
            (i \notin Kept <=> StarBy(heap[i], Known))

\* C8: a non-pitcher is dropped exactly when its representative wOBA, the
\* first of currentWoba, woba25, woba24 that is set and not zero, exists
\* and is above .350 and it is not both younger than 24 and below 400 PA
\* with both known; without such a wOBA it is kept, at exactly .350 it is
\* kept, above .350 with unknown age or unknown PA it is dropped.
C8_EstablishedStar ==
    calls >= 1 =>
      \A i \in DOMAIN heap :
          ~StatedPitcher(heap[i].position) =>
            /\ i \notin Kept <=> StatedStar(heap[i])
            /\ StatedWoba(heap[i]) = NULL => i \in Kept
            /\ StatedWoba(heap[i]) = 350 => i \in Kept
            /\ (/\ StatedWoba(heap[i]) # NULL
                /\ StatedWoba(heap[i]) > 350
                /\ (heap[i].age = NULL \/ heap[i].pa = NULL))
               => i \notin Kept

\* A scored cohort that kept a young, limited-sample hitter above .350
\* and dropped a hitter above .350
C8_Witness ==
    /\ calls >= 1
    /\ \E i \in Kept :
         StatedWoba(heap[i]) # NULL /\ StatedWoba(heap[i]) > 350
    /\ \E i \in (DOMAIN heap) \ Kept :
         ~StatedPitcher(heap[i].position) /\ StatedWoba(heap[i]) > 350

C10_SampleSize ==
    /\ \A i \in Kept :
         LET pa == heap[i].pa
             m  == heap[i]._adjustments.sampleSize
         IN  /\ m = StatedSampleMultiplier(pa)
             /\ pa = 600 => m = 100
             /\ pa = 350 => m = 95
             /\ pa = 250 => m = 85
             /\ pa = 175 => m = 75
             /\ pa = 80 => m = 60
             /\ pa = NULL => m = 60
    /\ \A i, j \in Kept :
         (heap[i].pa # NULL /\ heap[j].pa # NULL /\ heap[i].pa <= heap[j].pa)
           => heap[i]._adjustments.sampleSize
                <= heap[j]._adjustments.sampleSize

\* A scored cohort with a player of 175 PA and a player of unknown PA
C10_Witness ==
    /\ calls >= 1
    /\ \E i \in Kept :
         heap[i].pa = 175 /\ heap[i]._adjustments.sampleSize = 75
    /\ \E i \in Kept : heap[i].pa = NULL

\* Every record of the input is one the two filters remove
AllRemoved ==
    \A i \in DOMAIN heap :
        StatedPitcher(heap[i].position) \/ StatedStar(heap[i])

\* C11: on an empty cohort, and on a cohort whose every record the
\* pitcher and established-star filters remove, the call returns (no
\* step of it is undefined, so that the call is counted) and what it
\* returns is the empty array, none of the records having been scored.
C11_EmptyCohort ==
    AllRemoved =>
      /\ ranked = << >>
      /\ \A i \in DOMAIN heap : heap[i].breakoutScore = NULL

\* A scored cohort of a pitcher and an established star: nothing is left
C11_Witness ==
    /\ calls >= 1
    /\ Len(heap) >= 2
    /\ \E i \in DOMAIN heap : StatedPitcher(heap[i].position)
    /\ \E i \in DOMAIN heap :
         ~StatedPitcher(heap[i].position) /\ StatedStar(heap[i])
    /\ AllRemoved
    /\ ranked = << >>

\* A record without the four properties the engine derives
InputPart(p) ==
    [p EXCEPT !._raw = << >>, !._scores = << >>, !._adjustments = << >>,
              !.breakoutScore = NULL]

\* C12 as stated: a call leaves every object of its input array with
\* the fields and the values it had before the call.
C12_Original ==
    [][calls' = calls + 1 => heap' = heap]_vars

\* C12: a call writes _raw, _scores, _adjustments and breakoutScore onto
\* the objects of its input array that it retains and nothing else: the
\* array keeps its members in their order, a dropped object is left as
\* it was, a retained object keeps every other field; the records the
\* loaders ingested never change, the array being made of copies of them.
C12_InputFrame ==
    [][/\ records' = records
       /\ calls' = calls + 1 =>
            /\ DOMAIN heap' = DOMAIN heap
            /\ \A i \in DOMAIN heap :
                 /\ InputPart(heap'[i]) = InputPart(heap[i])
                 /\ (\A k \in DOMAIN ranked' : ranked'[k] # i)
                      => heap'[i] = heap[i]]_vars

\* A scored cohort with a retained object that now carries a score, its
\* record carrying none, and a dropped object
C12_Witness ==
    /\ calls >= 1
    /\ \E i \in Kept :
         /\ heap[i].breakoutScore # NULL
         /\ heap[i]._adjustments # << >>
         /\ records[i].breakoutScore = NULL
         /\ records[i]._adjustments = << >>
    /\ \E i \in DOMAIN heap : i \notin Kept

\* The elite-profile factors as the specification lists them
StatedEliteFactors(p) ==
    LET has(f)      == p[f] # NULL
        hardHit     == has("hardHitRate") /\ p.hardHitRate > 450
        barrel      == has("barrelRate") /\ p.barrelRate > 100
        batSpeed    == has("batSpeed") /\ p.batSpeed > 73
        lowK        == has("kRate") /\ p.kRate < 200
        stable      == ~has("kRateImprovement") \/ p.kRateImprovement >= -30
        barrelGain  == has("barrelImprovement") /\ p.barrelImprovement > 20
                       /\ stable
        hardHitGain == has("hardHitImprovement") /\ p.hardHitImprovement > 30
                       /\ stable
        chaseGain   == has("chaseImprovement") /\ p.chaseImprovement > 20
        gains       == Cardinality({g \in {1, 2, 3} :
                          \/ g = 1 /\ barrelGain
                          \/ g = 2 /\ hardHitGain
                          \/ g = 3 /\ chaseGain})
        young       == /\ has("hardHitRate") /\ p.hardHitRate > 550
                       /\ has("barrelRate") /\ p.barrelRate > 130
                       /\ has("age")
    IN  (IF hardHit THEN <<110>> ELSE << >>)
        \o (IF barrel THEN <<110>> ELSE << >>)
        \o (IF batSpeed THEN <<108>> ELSE << >>)
        \o (IF lowK THEN <<108>> ELSE << >>)
        \o (IF barrelGain THEN <<115>> ELSE << >>)
        \o (IF hardHitGain THEN <<112>> ELSE << >>)
        \o (IF chaseGain THEN <<110>> ELSE << >>)
        \o (IF has("kRateImprovement") /\ p.kRateImprovement < -50
            THEN <<75>> ELSE << >>)
        \o (IF hardHit /\ barrel /\ batSpeed /\ lowK THEN <<115>> ELSE << >>)
        \o (IF gains >= 2 THEN <<120>> ELSE << >>)
        \o (IF young /\ p.age <= 21 THEN <<140>>
            ELSE IF young /\ p.age = 22 THEN <<130>>
            ELSE IF young /\ p.age = 23 THEN <<120>>
            ELSE IF young /\ p.age = 24 THEN <<110>>
            ELSE << >>)

\* The final score as stated, with further factors multiplied in
StatedScoreTimes(p, factors) ==
    MathRound(QMulAll(QMul(QMul(QFrac(StatedComposite(p)),
                                Frac(StatedAgeMultiplier(p.age), 100)),
                           Frac(StatedSampleMultiplier(p.pa), 100)),
                      StatedEliteFactors(p) \o factors))

AdvisoryFields ==
    {"careerWoba", "yearsInMLB", "pullRate", "launchAngle",
     "launchAngleDelta", "xwobaTrajectory"}

\* The cohort with the advisory fields of every player unset
WithoutAdvisory(objs) ==
    [i \in DOMAIN objs |->
       [f \in DOMAIN objs[i] |->
          IF f \in AdvisoryFields THEN NULL ELSE objs[i][f]]]

\* The factors of the advisory tables for a player
AdvisoryFactors(p) ==
    <<K_RATE_PENALTIES_getPenalty(p.kRate),
      CAREER_CONTEXT_getMultiplier(p.currentWoba, p.careerWoba),
      SOPHOMORE_SLUMP_getMultiplier(p.age, p.currentWoba, p.careerWoba,
                                    p.yearsInMLB),
      YEARS_OF_SERVICE_getMultiplier(p.yearsInMLB),
      CHASE_RATE_FILTER_getSurplusReliability(p.chaseRate, p.xwobaSurplus),
      BAT_SPEED_BOOST_getMultiplier(p.batSpeed, p.currentWoba),
      LAUNCH_ANGLE_CHANGE_getMultiplier(p.launchAngleDelta, p.age),
      PULL_RATE_BOOST_getMultiplier(p.pullRate, year)>>

HardHitSteps == {360, 440, 451, 460, 540, 551, 560}

\* The hard-hit rates of the scored players other than i
OtherHardHit(i) == {heap[j].hardHitRate : j \in Kept \ {i}} \ {NULL}

\* Moving player i to hard-hit rate v leaves the minimum and the maximum
\* of the scored cohort where they are
KeepsExtremes(i, v) ==
    /\ OtherHardHit(i) # {}
    /\ MinOf(OtherHardHit(i) \cup {v})
         = MinOf(OtherHardHit(i) \cup {heap[i].hardHitRate})
    /\ MaxOf(OtherHardHit(i) \cup {v})
         = MaxOf(OtherHardHit(i) \cup {heap[i].hardHitRate})

\* The score of player i in the cohort that differs in i's hard-hit rate
ScoreAtHardHit(i, v) ==
    computeBreakoutScore([heap EXCEPT ![i].hardHitRate = v], year, weights)
        .heap[i].breakoutScore

\* C14: raising the hard-hit rate of one scored player, every other field
\* of every player and the cohort's minimum and maximum hard-hit rate
\* staying as they are, does not lower that player's breakoutScore.
C14_HardHitMonotone ==
    calls >= 1 =>
      \A i \in Kept :
          heap[i].hardHitRate # NULL =>
            \A v \in HardHitSteps :
                (v > heap[i].hardHitRate /\ KeepsExtremes(i, v))
                  => ScoreAtHardHit(i, v) >= heap[i].breakoutScore

\* A scored cohort in which a player below .450 can be moved above it
\* between the cohort's extremes, and scores strictly higher there
C14_Witness ==
    /\ calls >= 1
    /\ \E i \in Kept :
         /\ heap[i].hardHitRate # NULL
         /\ heap[i].hardHitRate <= 450
         /\ \E v \in HardHitSteps :
              /\ v > 450
              /\ KeepsExtremes(i, v)
              /\ ScoreAtHardHit(i, v) > heap[i].breakoutScore

\* The cohorts the first player of a relativity cohort is compared in:
\* the same record ahead of up to two others
OtherCohorts ==
    { <<InputPart(heap[1])>> \o rest : rest \in SeqsUpTo(RelativityPool, 2) }

\* Minimum, maximum and the first player's normalized score of a feature
\* in another cohort, after a call on it
ScoredIn(alt, f) ==
    LET r    == computeBreakoutScore(alt, year, weights)
        vals == {r.heap[r.result[k]]._raw[f] : k \in DOMAIN r.result}
                  \ {NULL}
    IN  [min |-> MinOf(vals), max |-> MaxOf(vals),
         score |-> r.heap[1]._scores[f]]

\* The same of the cohort scored in this state
ScoredHere(f) ==
    [min |-> MinOf(RawVals(f)), max |-> MaxOf(RawVals(f)),
     score |-> heap[1]._scores[f]]

\* The first player of a relativity cohort, scored, with a value for f
Relative(f) ==
    /\ calls = 1
    /\ Len(heap) >= 1
    /\ heap[1].name = "R"
    /\ heap[1]._raw[f] # NULL

Scenario ==
    /\ calls >= 1
    /\ Len(heap) = 2
    /\ {heap[1].name, heap[2].name} = {"A", "B"}

PlayerA == CHOOSE i \in DOMAIN heap : heap[i].name = "A"

PlayerB == CHOOSE i \in DOMAIN heap : heap[i].name = "B"

\* A product of factors in hundredths is at least 1.0
AtLeastOne(factors) ==
    LET q == QMulAll(QFrac(Frac(1, 1)), factors)
    IN  BigToNat(BigDivAll(q.n, q.d)) >= 1

\* What the scenario says of the two players apart from B's sample-size
\* multiplier and A's elite-profile multiplier
ScenarioRest ==
    LET a == heap[PlayerA]
        b == heap[PlayerB]
    IN  /\ DOMAIN a._scores = Features /\ DOMAIN b._scores = Features
        /\ \A f \in Features : Is(a._scores[f], 100) /\ Is(b._scores[f], 0)
        /\ a._adjustments.rawScore = 100
        /\ a._adjustments.age = 125
        /\ a._adjustments.sampleSize = 100
        /\ b._adjustments.rawScore = 0
        /\ b._adjustments.age = 70
        /\ ranked = <<PlayerA, PlayerB>>
        /\ a.breakoutScore > b.breakoutScore

\* C16 as stated: A is all 100s with composite 100, age 1.25, sample
\* 1.00 and an elite-profile multiplier of at least 1.0, B is all 0s with
\* composite 0, age 0.70 and sample 0.60, and A ranks above B.
C16_Original ==
    Scenario =>
      /\ ScenarioRest
      /\ AtLeastOne(heap[PlayerA]._adjustments.eliteProfile)
      /\ heap[PlayerB]._adjustments.sampleSize = 60

\* C16: A is all 100s with composite 100, age 1.25 and sample 1.00, B is
\* all 0s with composite 0, age 0.70 and sample 0.75 (150 PA), A ranks
\* strictly above B, and A's elite-profile multiplier is at least 1.0
\* when A's bat speed is above 73 or A's strikeout rate has not grown by
\* more than 0.05.
C16_Scenario ==
    Scenario =>
      /\ ScenarioRest
      /\ heap[PlayerB]._adjustments.sampleSize = 75
      /\ heap[PlayerB].breakoutScore = 0
      /\ (\/ heap[PlayerA].batSpeed > 73
          \/ heap[PlayerA].kRateImprovement = NULL
          \/ heap[PlayerA].kRateImprovement >= -50)
           => /\ AtLeastOne(heap[PlayerA]._adjustments.eliteProfile)
              /\ heap[PlayerA].breakoutScore >= 125

\* The scenario scored with B ahead of A in the input, the four threshold
\* bonuses and the mega bonus applied to A
C16_Witness ==
    /\ Scenario
    /\ PlayerB = 1
    /\ ranked = <<2, 1>>
    /\ Len(heap[PlayerA]._adjustments.eliteProfile) >= 5
    /\ heap[PlayerA].breakoutScore > 125

\* The fields the elite-profile multiplier reads, age apart
EliteInputs ==
    {"hardHitRate", "barrelRate", "batSpeed", "kRate", "barrelImprovement",
     "hardHitImprovement", "chaseImprovement", "kRateImprovement"}

\* The call left player i with a score: a natural number made of a
\* composite and normalized scores between 0 and 100
WellScored(i) ==
    LET p == heap[i]
    IN  /\ p.breakoutScore \in Nat
        /\ p._adjustments.rawScore \in 0..100
        /\ \A f \in DOMAIN p._scores :
             /\ p._scores[f].n >= 0
             /\ p._scores[f].n <= 100 * p._scores[f].d

\* C17 as stated: every retained player is scored whatever is missing,
\* and a factor whose inputs are missing is 1.0: the age multiplier
\* without age, the sample-size multiplier without PA, the elite-profile
\* multiplier without any of its inputs.
C17_Original ==
    \A i \in Kept :
        /\ WellScored(i)
        /\ heap[i].age = NULL => heap[i]._adjustments.age = 100
        /\ heap[i].pa = NULL => heap[i]._adjustments.sampleSize = 100
        /\ (\A f \in EliteInputs : heap[i][f] = NULL)
             => heap[i]._adjustments.eliteProfile = << >>

\* C17: every retained player is scored whatever is missing; without age
\* the age multiplier is 1.0, without any of its inputs the
\* elite-profile multiplier is 1.0, and without PA the sample-size
\* multiplier is 0.60.
C17_NeutralDefaults ==
    \A i \in Kept :
        /\ WellScored(i)
        /\ heap[i].age = NULL => heap[i]._adjustments.age = 100
        /\ heap[i].pa = NULL => heap[i]._adjustments.sampleSize = 60
        /\ (\A f \in EliteInputs : heap[i][f] = NULL)
             => heap[i]._adjustments.eliteProfile = << >>

\* Two players scored together, one without age, PA and every input of
\* the elite-profile multiplier but with other statistics, one complete
C17_Witness ==
    /\ calls >= 1
    /\ Len(ranked) = 2
    /\ \E i \in Kept :
         /\ heap[i].age = NULL /\ heap[i].pa = NULL
         /\ \A f \in EliteInputs : heap[i][f] = NULL
         /\ heap[i].chaseRate # NULL
         /\ heap[i]._adjustments.eliteProfile = << >>
         /\ heap[i].breakoutScore > 0
    /\ \E i \in Kept : heap[i]._adjustments.eliteProfile # << >>

StatedTier(score) ==
    CASE score >= 80 -> "ELITE"
      [] score >= 68 /\ score < 80 -> "HIGH"
      [] score >= 55 /\ score < 68 -> "MED"
      [] score < 55 -> "LOW"

\* getTier gives every score from 0 to 300 the stated label
TiersAsStated == \A s \in 0..300 : getTier(s).label = StatedTier(s)

\* C18: getTier gives every score its one label, ELITE from 80, HIGH
\* from 68 to 79, MED from 55 to 67, LOW below; the rankings table
\* shows that label for each of its players, and rendering it changes no
\* player's breakoutScore (nor anything else of the scored cohort).
C18_QualityTier ==
    /\ [](/\ TiersAsStated
          /\ \A k \in DOMAIN shown :
               shown[k].tier
                 = StatedTier(heap[shown[k].player].breakoutScore))
    /\ [][shown' # shown => heap' = heap /\ ranked' = ranked]_vars

\* A rendered table of two players in different tiers, one of them ELITE
C18_Witness ==
    /\ Len(shown) >= 2
    /\ \E k \in DOMAIN shown :
         shown[k].tier = "ELITE" /\ heap[shown[k].player].breakoutScore >= 80
    /\ \E k \in DOMAIN shown : shown[k].tier \in {"HIGH", "MED", "LOW"}

StatedConfidence(pa) ==
    CASE pa = NULL -> "SPEC"
      [] pa # NULL /\ pa >= 400 -> "HIGH"
      [] pa # NULL /\ pa >= 200 /\ pa <= 399 -> "MED"
      [] pa # NULL /\ pa < 200 -> "LOW"

\* SAMPLE_SIZE_ADJUSTMENTS.getTier gives every PA count from 0 to 800,
\* and the unknown one, the stated label
ConfidenceAsStated ==
    \A pa \in 0..800 \cup {NULL} :
        SAMPLE_SIZE_ADJUSTMENTS_getTier(pa).label = StatedConfidence(pa)

\* C19: the confidence tier is HIGH from 400 PA, MED from 200 to 399,
\* LOW below 200 and SPEC when PA is unknown; each row of the rankings
\* table carries the label of its player's PA whatever the player's
\* score, so rows of equal PA carry equal labels.
C19_ConfidenceTier ==
    /\ ConfidenceAsStated
    /\ \A k \in DOMAIN shown :
         shown[k].confidenceTier = StatedConfidence(heap[shown[k].player].pa)
    /\ \A j, k \in DOMAIN shown :
         heap[shown[j].player].pa = heap[shown[k].player].pa
           => shown[j].confidenceTier = shown[k].confidenceTier

\* A rendered table with two rows of equal PA and different scores, and
\* a row whose confidence is HIGH while its quality tier is LOW
C19_Witness ==
    /\ \E j, k \in DOMAIN shown :
         /\ heap[shown[j].player].pa = heap[shown[k].player].pa
         /\ heap[shown[j].player].breakoutScore
              # heap[shown[k].player].breakoutScore
    /\ \E k \in DOMAIN shown :
         shown[k].confidenceTier = "HIGH" /\ shown[k].tier = "LOW"

\* C20: as the methodology panel and the README tell the user, the
\* K-rate penalty of K_RATE_PENALTIES.getPenalty (0.85 from a 30%
\* strikeout rate, 0.95 from 25%, 1.0 otherwise) is one of the factors of
\* every scored player's breakoutScore.
C20_KRatePenaltyApplied ==
    calls >= 1 =>
      \A i \in Kept :
        heap[i].breakoutScore
          = StatedScoreTimes(heap[i],
                             <<K_RATE_PENALTIES_getPenalty(heap[i].kRate)>>)

\* A scored player with a strikeout rate of 30% or more whose score is
\* the one without the penalty, and not the one with it
C20_Unpenalised ==
    /\ calls >= 1
    /\ \E i \in Kept :
         /\ heap[i].kRate # NULL /\ heap[i].kRate >= 300
         /\ heap[i].breakoutScore = StatedScoreTimes(heap[i], << >>)
         /\ heap[i].breakoutScore
              > StatedScoreTimes(heap[i], <<K_RATE_PENALTIES_getPenalty(
                                              heap[i].kRate)>>)

\* ------------------------------------------- the elite-profile rules
\* The factors each rule contributes as stated, in hundredths
StatedSkill(p) ==
    LET hardHit  == p.hardHitRate # NULL /\ p.hardHitRate > 450
        barrel   == p.barrelRate # NULL /\ p.barrelRate > 100
        batSpeed == p.batSpeed # NULL /\ p.batSpeed > 73
        lowK     == p.kRate # NULL /\ p.kRate < 200
    IN  (IF hardHit THEN <<110>> ELSE << >>)
        \o (IF barrel THEN <<110>> ELSE << >>)
        \o (IF batSpeed THEN <<108>> ELSE << >>)
        \o (IF lowK THEN <<108>> ELSE << >>)
        \o (IF hardHit /\ barrel /\ batSpeed /\ lowK THEN <<115>> ELSE << >>)

StatedStable(p) == p.kRateImprovement = NULL \/ p.kRateImprovement >= -30

StatedBarrelGain(p) ==
    p.barrelImprovement # NULL /\ p.barrelImprovement > 20 /\ StatedStable(p)

StatedHardHitGain(p) ==
    p.hardHitImprovement # NULL /\ p.hardHitImprovement > 30
    /\ StatedStable(p)

StatedChaseGain(p) == p.chaseImprovement # NULL /\ p.chaseImprovement > 20

StatedTrend(p) ==
    (IF StatedBarrelGain(p) THEN <<115>> ELSE << >>)
    \o (IF StatedHardHitGain(p) THEN <<112>> ELSE << >>)
    \o (IF StatedChaseGain(p) THEN <<110>> ELSE << >>)

StatedGains(p) ==
    Cardinality({g \in {"barrel", "hardHit", "chase"} :
                   \/ g = "barrel" /\ StatedBarrelGain(p)
                   \/ g = "hardHit" /\ StatedHardHitGain(p)
                   \/ g = "chase" /\ StatedChaseGain(p)})

StatedTwoOrMore(p) == IF StatedGains(p) >= 2 THEN <<120>> ELSE << >>

StatedExplosion(p) ==
    IF p.kRateImprovement # NULL /\ p.kRateImprovement < -50
    THEN <<75>> ELSE << >>

StatedYoung(p) ==
    IF /\ p.hardHitRate # NULL /\ p.hardHitRate > 550
       /\ p.barrelRate # NULL /\ p.barrelRate > 130
       /\ p.age # NULL
    THEN CASE p.age <= 21 -> <<140>>
           [] p.age = 22 -> <<130>>
           [] p.age = 23 -> <<120>>
           [] p.age = 24 -> <<110>>
           [] p.age >= 25 -> << >>
    ELSE << >>

FactorValues == {75, 108, 110, 112, 115, 120, 130, 140}

Count(factors, v) == Cardinality({k \in DOMAIN factors : factors[k] = v})

\* The factors of a scored player's multiplier are those of own together
\* with those of others, each as many times
MadeOf(i, own, others) ==
    \A v \in FactorValues :
        Count(heap[i]._adjustments.eliteProfile, v)
          = Count(own, v) + Count(others, v)

\* The orders in which the factors of a sequence can be multiplied
Orders(factors) ==
    {[k \in DOMAIN factors |-> factors[f[k]]] :
       f \in Permutations(DOMAIN factors)}

\* The current-skill factors of every combination of the four conditions
SkillLists ==
    {StatedSkill([hardHitRate |-> h, barrelRate |-> b,
                  batSpeed |-> s, kRate |-> k]) :
       h \in {NULL, 451}, b \in {NULL, 101}, s \in {NULL, 74},
       k \in {NULL, 199}}

\* The doubles the factors of each such list multiply to, over all orders
SkillProducts == [s \in SkillLists |-> {F64Product(o) : o \in Orders(s)}]

ExactProduct(factors) == QMulAll(QFrac(Frac(1, 1)), factors)

RECURSIVE BigMulAll(_, _)
BigMulAll(b, ks) ==
    IF ks = <<>> THEN b ELSE BigMulAll(BigMul(b, Head(ks)), Tail(ks))

\* Two exact values are the same number
SameValue(a, b) == BigMulAll(a.n, b.d) = BigMulAll(b.n, a.d)

Scored == IF calls >= 1 THEN Kept ELSE {}

C22_Improvements ==
    \A i \in Scored :
        LET p  == heap[i]
            el == p._adjustments.eliteProfile
        IN  /\ MadeOf(i, StatedTrend(p),
                      StatedSkill(p) \o StatedExplosion(p)
                        \o StatedTwoOrMore(p) \o StatedYoung(p))
            /\ Count(el, 112) = 1
                 <=> /\ p.hardHitImprovement # NULL
                     /\ p.hardHitImprovement > 30
                     /\ (p.kRateImprovement = NULL
                         \/ p.kRateImprovement >= -30)
            /\ Count(el, 112) <= 1
            /\ (p.kRateImprovement # NULL /\ p.kRateImprovement < -30)
                 => Count(el, 115) = Count(StatedSkill(p), 115)

\* A scored player at a strikeout-rate change of exactly -0.03 with all
\* three improvements above their thresholds, and the three factors
C22_Witness ==
    \E i \in Scored :
        /\ heap[i].kRateImprovement = -30
        /\ heap[i].barrelImprovement = 21 /\ heap[i].hardHitImprovement = 31
        /\ heap[i].chaseImprovement = 21
        /\ SubSeq(heap[i]._adjustments.eliteProfile, 1, 3) = <<115, 112, 110>>

\* C23: the multiplier holds one more factor 1.20 exactly when at least
\* two improvement bonuses were applied (a barrel or hard-hit improvement
\* counting only with a stable strikeout rate, a chase improvement
\* always), and holds it once whether two or three were applied.
C23_TwoOrMore ==
    \A i \in Scored :
        LET p       == heap[i]
            el      == p._adjustments.eliteProfile
            applied == Len(StatedTrend(p))
            young   == Count(StatedYoung(p), 120)
        IN  /\ MadeOf(i, StatedTwoOrMore(p),
                      StatedSkill(p) \o StatedTrend(p)
                        \o StatedExplosion(p) \o StatedYoung(p))
            /\ applied = StatedGains(p)
            /\ applied >= 2 => Count(el, 120) = 1 + young
            /\ applied < 2 => Count(el, 120) = young

\* A scored player with all three improvements applied and the factor
\* 1.20 once
C23_Witness ==
    \E i \in Scored :
        /\ StatedGains(heap[i]) = 3
        /\ heap[i]._adjustments.eliteProfile = <<115, 112, 110, 120>>

CarvedOut(p) ==
    /\ p.currentWoba # NULL /\ p.currentWoba > 350
    /\ p.age # NULL /\ p.age < 24 /\ p.pa # NULL /\ p.pa < 400

\* C25: the multiplier holds an elite-young factor only when hardHitRate
\* is known and > 0.55, barrelRate is known and > 0.13 and age is known:
\* 1.40 up to age 21, 1.30 at 22, 1.20 at 23, 1.10 at 24, none from 25.
\* A player above wOBA 0.350 that the age < 24, PA < 400 exception
\* retains is scored and gets the factor of its age like any other.
C25_EliteYoung ==
    /\ \A i \in Scored :
         LET p  == heap[i]
             el == p._adjustments.eliteProfile
             elite == /\ p.hardHitRate # NULL /\ p.hardHitRate > 550
                      /\ p.barrelRate # NULL /\ p.barrelRate > 130
                      /\ p.age # NULL
         IN  /\ MadeOf(i, StatedYoung(p),
                       StatedSkill(p) \o StatedTrend(p)
                         \o StatedExplosion(p) \o StatedTwoOrMore(p))
             /\ Count(el, 140) = (IF elite /\ p.age <= 21 THEN 1 ELSE 0)
             /\ Count(el, 130) = (IF elite /\ p.age = 22 THEN 1 ELSE 0)
             /\ (~elite \/ p.age >= 25)
                  => el = SelectSeq(StatedSkill(p), LAMBDA f : f # 115)
                            \o StatedTrend(p) \o StatedExplosion(p)
                            \o SelectSeq(StatedSkill(p), LAMBDA f : f = 115)
                            \o StatedTwoOrMore(p)
    /\ calls >= 1 =>
         \A i \in DOMAIN heap :
             CarvedOut(heap[i]) /\ NotPitcher(heap[i]) => i \in Kept

\* A scored 21-year-old above wOBA 0.350 with 350 PA, retained by the
\* exception, with the elite-young factor 1.40
C25_Witness ==
    \E i \in Scored :
        /\ CarvedOut(heap[i]) /\ heap[i].age = 21
        /\ heap[i]._adjustments.eliteProfile = <<110, 110, 140>>

\* C30: for a player whose kRateImprovement is below -0.05 the penalty
\* 0.75 is applied and neither the barrel-improvement factor 1.15 nor
\* the hard-hit-improvement factor 1.12 is; at most one improvement (the
\* chase one) counts, so the two-or-more factor 1.20 never comes with the
\* penalty.
C30_ExplosionExcludes ==
    \A i \in Scored :
        LET p  == heap[i]
            el == p._adjustments.eliteProfile
        IN  Count(el, 75) >= 1 =>
              /\ p.kRateImprovement # NULL /\ p.kRateImprovement < -50
              /\ Count(el, 75) = 1
              /\ Count(el, 112) = 0
              /\ Count(el, 115) = Count(StatedSkill(p), 115)
              /\ StatedGains(p) <= 1
              /\ Count(el, 120) = Count(StatedYoung(p), 120)

\* A scored player with all three improvements above their thresholds
\* and a strikeout-rate change of -0.051: the chase factor and the penalty
C30_Witness ==
    \E i \in Scored :
        /\ heap[i].kRateImprovement = -51
        /\ heap[i].barrelImprovement = 21 /\ heap[i].hardHitImprovement = 31
        /\ heap[i].chaseImprovement = 21
        /\ heap[i]._adjustments.eliteProfile = <<110, 75>>

\* A fraction lies between two integers
Within(s, low, high) == low * s.d <= s.n /\ s.n <= high * s.d

\* A feature that two or more players of the scored cohort have a value
\* for, the same for all
ZeroVariance(f) ==
    /\ Cardinality(RawVals(f)) = 1
    /\ Cardinality({i \in Kept : heap[i]._raw[f] # NULL}) >= 2

\* C29: in every scored cohort, one with a feature of zero variance
\* included, every normalized value is within 0 and 100, the raw
\* composite is within 0 and 100 and breakoutScore is an integer that is
\* not negative.  (breakoutScore has no upper bound of 100: the witness
\* is a score above it.)
C29_ScoreBounds ==
    \A i \in Scored :
        /\ \A f \in DOMAIN heap[i]._scores :
             /\ Within(heap[i]._scores[f], 0, 100)
             /\ ZeroVariance(f) /\ heap[i]._raw[f] # NULL
                  => Is(heap[i]._scores[f], 0)
        /\ Within(Total(heap[i], weights), 0, 100)
        /\ heap[i]._adjustments.rawScore \in 0..100
        /\ heap[i].breakoutScore \in Nat

\* A scored cohort with a feature of zero variance and a player whose
\* breakoutScore is above 100
C29_Witness ==
    /\ \E f \in Features : ZeroVariance(f)
    /\ \E i \in Scored : heap[i].breakoutScore > 100

\* The year-over-year differences of the /100-scaled rates of a row
RateGain(row, key) ==
    row.statcastData[key] \div 100 - row.statcastPrevData[key] \div 100

RateDrop(row, key) ==
    row.statcastPrevData[key] \div 100 - row.statcastData[key] \div 100

ChaseDrop(row) ==
    row.chasePrev \div 100 - row.statcastData.o_swing_percent \div 100

\* The rows whose player object is the record
RowsOf(p) == {row \in LiveRows : playerObj(row, year) = p}

\* C28: the improvement fields fetchYear writes are differences of the
\* /100-scaled rates of the two seasons (decimal fractions, 0.02 for 2
\* percentage points), so that the bonuses for barrel, hard-hit and chase
\* improvement, the stability test and the explosion penalty fire at 2,
\* 3, 2, 3 and 5 percentage points.
C28_UnitAgreement ==
    \A i \in DOMAIN records : \A row \in RowsOf(records[i]) :
        LET p == records[i]
        IN  /\ p.barrelImprovement = RateGain(row, "barrel_batted_rate")
            /\ p.hardHitImprovement = RateGain(row, "hard_hit_percent")
            /\ p.kRateImprovement = RateDrop(row, "k_percent")
            /\ p.chaseImprovement = ChaseDrop(row)
            /\ i \in Scored =>
                 LET el == heap[i]._adjustments.eliteProfile
                     stable == RateDrop(row, "k_percent") >= -30
                 IN  /\ Count(el, 112) = 1
                          <=> RateGain(row, "hard_hit_percent") > 30 /\ stable
                     /\ Count(el, 75) = 1
                          <=> RateDrop(row, "k_percent") < -50

\* A scored player of the data file whose hard-hit, barrel and chase rates
\* each moved by half a percentage point at an unchanged strikeout rate,
\* with all three improvement factors and the two-or-more factor
C28_HalfPoint ==
    \E i \in Scored : \E row \in RowsOf(records[i]) :
        /\ RateGain(row, "hard_hit_percent") = 5
        /\ RateGain(row, "barrel_batted_rate") = 5
        /\ ChaseDrop(row) = 5
        /\ RateDrop(row, "k_percent") = 0
        /\ heap[i].hardHitImprovement = 500
        /\ heap[i]._adjustments.eliteProfile = <<115, 112, 110, 120>>

\* ---------------------------------------------------------- the loaders
\* The players array the App holds
Players(objs, refs) == [k \in DOMAIN refs |-> objs[refs[k]]]

\* The curated cohort of each season as computeBreakoutScore ranks it
DemoCohort ==
    [y \in Years |->
       LET r == computeBreakoutScore(
                    processDemoData(HISTORICAL_DATA[y], y), y, WEIGHTS)
       IN  Players(r.heap, r.result)]

\* The invocation is past its await and its try block throws
Fails(invocation) ==
    /\ invocation.response # NoResponse
    /\ Thrown(invocation.year, invocation.response) # NullString

\* The invocation is past its await and its try block runs to its end
Succeeds(invocation) ==
    /\ invocation.response # NoResponse
    /\ Thrown(invocation.year, invocation.response) = NullString

\* C26: a loadLive invocation that fails (fetch rejected, response not
\* ok, payload without success or players, or a throw while the players
\* are aged and scored) ends with the curated demo cohort of its year as
\* ranked by computeBreakoutScore, dataSource "demo", loading false and
\* an error message; one that succeeds ends with dataSource "live",
\* loading false and no error; and once the fetch of an invocation has
\* settled, loading becomes false.
C26_Fallback ==
    /\ [][\A k \in DOMAIN pending :
            pending' = RemoveAt(pending, k) =>
              /\ Fails(pending[k]) =>
                   /\ Players(heap', ranked') = DemoCohort[pending[k].year]
                   /\ dataSource' = "demo"
                   /\ loading' = FALSE
                   /\ error' # NullString
              /\ Succeeds(pending[k]) =>
                   /\ dataSource' = "live"
                   /\ loading' = FALSE
                   /\ error' = NullString]_vars
    /\ (\E k \in DOMAIN pending : pending[k].response # NoResponse)
          ~> (loading = FALSE)

\* A failed invocation has ended: the demo cohort is shown with the
\* error banner
C26_Witness ==
    /\ dataSource = "demo"
    /\ error = "Could not load data: Invalid data format"
    /\ loading = FALSE
    /\ Players(heap, ranked) = DemoCohort[year]
    /\ Len(shown) = DemoSize

\* C27: once no loadLive invocation is in flight, the players the App
\* holds were loaded and scored for the selected year.
C27_NoStaleYear ==
    (pending = << >> /\ calls >= 1) => year = selectedYear

\* Nothing is in flight and the table shows the players of the year
\* that is not selected
C27_StaleYear ==
    /\ pending = << >>
    /\ loading = FALSE
    /\ dataSource = "live"
    /\ year = 2026
    /\ selectedYear = 2025
    /\ shown # << >>

=============================================================================
